---- MODULE Spec2Model ----
(***************************************************************************)
(* Entity manager of the persistence layer: transaction lifecycle          *)
(* (transaction, clear, release) and the criteria / lookup operations       *)
(* (update, delete, softDelete, restore, findOne, findOneOrFail).           *)
(*                                                                          *)
(* Spec      : transaction(), clear() and release() calls, interleaved at   *)
(*             their await points, against the query runners they use.      *)
(* SpecData  : update / delete / softDelete / restore and findOne /         *)
(*             findOneOrFail on the managers the factory builds and on the  *)
(*             class-based EntityManager, against a table of stored rows.   *)
(***************************************************************************)
EXTENDS Integers, Sequences, FiniteSets, TLC

\* ------------------------------------------------------------------------
\* Bounds
\* ------------------------------------------------------------------------

\* number of call slots a caller may issue transaction()/clear() from
MaxCalls == 2

\* number of rows the table can hold (ids 1..MaxRows)
MaxRows == 2

\* longest array of ids passed as criteria
MaxListLen == 2

\* ------------------------------------------------------------------------
\* Program constants
\* ------------------------------------------------------------------------

\* findOne accepts at most two arguments after the entity class
MaxArgs == 2

\* ------------------------------------------------------------------------
\* Domains
\* ------------------------------------------------------------------------

Calls == 1..MaxCalls

\* runner 0 is the query runner the caller created and handed to the manager;
\* runner c is the one created by the call in slot c
SuppliedRunner == 0
RunnerIds == {SuppliedRunner} \cup Calls

\* the driver of the connection (decides which manager the factory builds)
DriverTypes == {"default", "sqljs", "mongo"}

\* "global": the connection's manager, no query runner of its own
\* "bound" : the manager created for the caller's query runner
ManagerRefs == {"global", "bound"}

\* values a transaction callback may resolve with
CallbackResults == {"r1", "r2"}

VARIABLES
    driver,     \* connection.driver
    runner,     \* per query runner: isReleased, isTransactionActive, releasesByOps
    tx,         \* per call slot: the position and locals of a transaction()/clear() call
    table,      \* stored rows of the entity's table
    last,       \* the last criteria / lookup operation and what it did
    tree,       \* the stored tree (parent of each node) and the last tree repository call
    unit,       \* the save / remove / softRemove / recover call in progress and its change set
    mgrs,       \* the manager objects made by EntityManagerFactory.create, queryRunner.manager
    repos,      \* connection metadata state, a manager's repository caches, the last getter call
    meta,       \* the last metadata build: registered entities or schemas and what came out
    stmt        \* the last findByIds / increment / decrement call and what it did

vars == <<driver, runner, tx, table, last, tree, unit, mgrs, repos, meta, stmt>>

\* ------------------------------------------------------------------------
\* Query runners
\* ------------------------------------------------------------------------

FreshRunner == [isReleased |-> FALSE, isTransactionActive |-> FALSE, releasesByOps |-> 0]

\* startTransaction can only succeed on a usable runner with no open transaction
CanStart(r) == ~runner[r].isReleased /\ ~runner[r].isTransactionActive

\* commitTransaction / rollbackTransaction can only succeed on an open transaction
CanEnd(r) == ~runner[r].isReleased /\ runner[r].isTransactionActive

\* ------------------------------------------------------------------------
\* Managers
\* ------------------------------------------------------------------------

\* this.queryRunner is defined: the manager was built for a runner, or it is the
\* MongoDB manager, whose queryRunner getter returns the driver's runner
HasQueryRunner(m) == m = "bound" \/ driver = "mongo"

\* ------------------------------------------------------------------------
\* Call slots
\* ------------------------------------------------------------------------

IdleCall == [pc |-> "idle", op |-> "none", mgr |-> "global",
             isolation |-> FALSE, hasCallback |-> FALSE,
             sawReleased |-> FALSE, sawActive |-> FALSE,
             created |-> FALSE, err |-> "none", rollbackFailed |-> FALSE,
             result |-> "none", pending |-> "none", outcome |-> "pending",
             started |-> "notCalled", handed |-> "none",
             log |-> <<>>]

\* a tree table without rows, no tree repository call made yet
NoTreeCall == [op |-> "none", treeType |-> "none", layout |-> "id",
               entity |-> [node |-> 0, mpath |-> <<>>],
               duplicated |-> FALSE, outcome |-> "none", error |-> "none",
               ids |-> {}, count |-> 0, query |-> [kind |-> "none"],
               entities |-> <<>>, children |-> {}, parents |-> {}]

EmptyTree == [parent |-> <<>>, last |-> NoTreeCall]

\* a value passed to save / remove / softRemove / recover: its kind, the
\* object it is (ref) and, for an array, its length
Passed(kind, ref, len) == [kind |-> kind, ref |-> ref, len |-> len]

NotPassed == Passed("undefined", 0, 0)

\* no persistence call in progress, no change set being computed
NoUnit == [pc |-> "idle", op |-> "none", m |-> "default", via |-> "manager",
           args |-> <<>>, target |-> NotPassed, entity |-> NotPassed,
           executors |-> 0, transactions |-> 0, queries |-> 0,
           outcome |-> "none", returned |-> NotPassed,
           roots |-> <<>>, known |-> 0, ident |-> <<>>, edge |-> <<>>,
           queue |-> <<>>, visited |-> {}, ops |-> <<>>, visits |-> 0]

\* no manager made by the factory yet
NoManagers == [objects |-> <<>>, runnerManager |-> [r \in RunnerIds |-> 0],
               last |-> [op |-> "none", supplied |-> FALSE, runner |-> SuppliedRunner,
                         manager |-> 0, handed |-> 0]]

\* no repository asked for yet
NoRepositories == [initialized |-> FALSE, repositories |-> <<>>, treeRepositories |-> <<>>,
                   created |-> 0,
                   last |-> [op |-> "none", target |-> "none", outcome |-> "none",
                             returned |-> 0, before |-> <<>>]]

\* no metadata built yet
NoBuild == [op |-> "none", input |-> <<>>, mapped |-> {}, outcome |-> "none",
            error |-> "none", storage |-> <<>>]

\* no findByIds / increment / decrement call made yet
NoStatement == [op |-> "none", m |-> "default", args |-> <<>>, outcome |-> "none",
                error |-> "none", value |-> <<>>, metadataLookups |-> 0, qb |-> 0,
                queries |-> 0, set |-> {}]

\* the runner a call works on
RunnerOf(c) == IF tx[c].created THEN c ELSE SuppliedRunner

\* the checks without the one on isTransactionActive
TransactionGuardNoActiveCheck(hasCallback, drv, hasRunner, isReleased, isActive) ==
    IF ~hasCallback THEN "noCallback"
    ELSE IF drv = "mongo" THEN "mongoNotSupported"
    ELSE IF hasRunner /\ isReleased THEN "alreadyReleased"
    ELSE "none"

\* the checks without the one on isReleased
TransactionGuardNoReleasedCheck(hasCallback, drv, hasRunner, isReleased, isActive) ==
    IF ~hasCallback THEN "noCallback"
    ELSE IF drv = "mongo" THEN "mongoNotSupported"
    ELSE IF hasRunner /\ isActive THEN "alreadyStarted"
    ELSE "none"

\* the precondition checks of transaction(), in the order of the code;
\* "none" when the call may proceed
TransactionGuard(hasCallback, drv, hasRunner, isReleased, isActive) ==
    IF ~hasCallback THEN "noCallback"
    ELSE IF drv = "mongo" THEN "mongoNotSupported"
    ELSE IF hasRunner /\ isReleased THEN "alreadyReleased"
    ELSE IF hasRunner /\ isActive THEN "alreadyStarted"
    ELSE "none"

\* a catch block that lets the error of the failed rollback escape
RethrownErrorFromRollback(err, rollbackFailed) ==
    IF rollbackFailed THEN "rollbackError" ELSE err

\* the catch block: rollback was attempted, the caught error is thrown again
RethrownError(err, rollbackFailed) == err

\* a finally block that releases whatever runner was used
ReleasesRunnerAlways(hasRunner) == TRUE

\* the finally block releases the runner when the manager has none of its own
ReleasesRunner(hasRunner) == ~hasRunner

\* ------------------------------------------------------------------------
\* transaction()
\* ------------------------------------------------------------------------

\* synchronous head of transaction(): argument normalisation, the four checks,
\* then `this.queryRunner || this.connection.createQueryRunner("master")`
TxEnter(c, m, firstIsIsolation, secondIsCallback) ==
    /\ tx[c].pc = "idle"
    /\ LET hasCallback == (~firstIsIsolation) \/ secondIsCallback
           hasRunner == HasQueryRunner(m)
           g == TransactionGuard(hasCallback, driver, hasRunner,
                                 runner[SuppliedRunner].isReleased,
                                 runner[SuppliedRunner].isTransactionActive)
           base == [IdleCall EXCEPT !.op = "transaction", !.mgr = m,
                        !.isolation = firstIsIsolation, !.hasCallback = hasCallback,
                        !.sawReleased = hasRunner /\ runner[SuppliedRunner].isReleased,
                        !.sawActive = hasRunner /\ runner[SuppliedRunner].isTransactionActive]
       IN IF g # "none"
          THEN /\ tx' = [tx EXCEPT ![c] = [base EXCEPT !.pc = "done", !.outcome = g]]
               /\ UNCHANGED runner
          ELSE IF hasRunner
          THEN /\ tx' = [tx EXCEPT ![c] = [base EXCEPT !.pc = "start"]]
               /\ UNCHANGED runner
          ELSE /\ tx' = [tx EXCEPT ![c] = [base EXCEPT !.pc = "start", !.created = TRUE,
                                                       !.log = <<"create">>]]
               /\ runner' = [runner EXCEPT ![c] = FreshRunner]
    /\ UNCHANGED <<driver, table, last, tree, unit, mgrs, repos, meta, stmt>>

\* a start that never passes the isolation level on
StartArgumentsNone(isolation) == "()"

\* if (isolation) startTransaction(isolation) else startTransaction()
StartArguments(isolation) == IF isolation THEN "(isolation)" ELSE "()"

\* await queryRunner.startTransaction(isolation?)
TxStart(c) ==
    /\ tx[c].pc = "start"
    /\ \E ok \in BOOLEAN :
        /\ ok => CanStart(RunnerOf(c))
        /\ IF ok
           THEN /\ runner' = [runner EXCEPT ![RunnerOf(c)].isTransactionActive = TRUE]
                /\ tx' = [tx EXCEPT ![c].pc = "callback",
                                    ![c].started = StartArguments(tx[c].isolation),
                                    ![c].log = Append(@, "start")]
           ELSE /\ tx' = [tx EXCEPT ![c].pc = "rollback", ![c].err = "startError",
                                    ![c].started = StartArguments(tx[c].isolation),
                                    ![c].log = Append(@, "start")]
                /\ UNCHANGED runner
    /\ UNCHANGED <<driver, table, last, tree, unit, mgrs, repos, meta, stmt>>

\* const result = await runInTransaction(queryRunner.manager)
TxCallback(c) ==
    /\ tx[c].pc = "callback"
    /\ \/ \E v \in CallbackResults :
            tx' = [tx EXCEPT ![c].pc = "commit", ![c].result = v,
                             ![c].handed = "queryRunner.manager",
                             ![c].log = Append(@, "callback")]
       \/ tx' = [tx EXCEPT ![c].pc = "rollback", ![c].err = "callbackError",
                           ![c].handed = "queryRunner.manager",
                           ![c].log = Append(@, "callback")]
    /\ UNCHANGED <<driver, runner, table, last, tree, unit, mgrs, repos, meta, stmt>>

\* await queryRunner.commitTransaction()
TxCommit(c) ==
    /\ tx[c].pc = "commit"
    /\ \E ok \in BOOLEAN :
        /\ ok => CanEnd(RunnerOf(c))
        /\ IF ok
           THEN /\ runner' = [runner EXCEPT ![RunnerOf(c)].isTransactionActive = FALSE]
                /\ tx' = [tx EXCEPT ![c].pc = "observe",
                                    ![c].log = Append(@, "commit")]
           ELSE /\ tx' = [tx EXCEPT ![c].pc = "rollback", ![c].err = "commitError",
                                    ![c].log = Append(@, "commit")]
                /\ UNCHANGED runner
    /\ UNCHANGED <<driver, table, last, tree, unit, mgrs, repos, meta, stmt>>

\* await new ObserverExecutor(this.connection.observers).execute(); return result
TxObserve(c) ==
    /\ tx[c].pc = "observe"
    /\ \/ tx' = [tx EXCEPT ![c].pc = "finally", ![c].pending = "resolved",
                           ![c].log = Append(@, "observe")]
       \/ tx' = [tx EXCEPT ![c].pc = "rollback", ![c].err = "observerError",
                           ![c].log = Append(@, "observe")]
    /\ UNCHANGED <<driver, runner, table, last, tree, unit, mgrs, repos, meta, stmt>>

\* catch (err) { try { await queryRunner.rollbackTransaction() } catch {} throw err }
TxRollback(c) ==
    /\ tx[c].pc = "rollback"
    /\ \E ok \in BOOLEAN :
        /\ ok => CanEnd(RunnerOf(c))
        /\ IF ok
           THEN runner' = [runner EXCEPT ![RunnerOf(c)].isTransactionActive = FALSE]
           ELSE UNCHANGED runner
        /\ tx' = [tx EXCEPT ![c].pc = "finally",
                            ![c].rollbackFailed = ~ok,
                            ![c].pending = RethrownError(tx[c].err, ~ok),
                            ![c].log = Append(@, "rollback")]
    /\ UNCHANGED <<driver, table, last, tree, unit, mgrs, repos, meta, stmt>>

\* finally { if (!this.queryRunner) await queryRunner.release() }
\* (shared by transaction() and clear()), then the promise settles
TxFinally(c) ==
    /\ tx[c].pc = "finally"
    /\ IF ReleasesRunner(HasQueryRunner(tx[c].mgr))
       THEN /\ runner' = [runner EXCEPT ![RunnerOf(c)].isReleased = TRUE,
                                        ![RunnerOf(c)].releasesByOps = @ + 1]
            /\ tx' = [tx EXCEPT ![c].pc = "done", ![c].outcome = tx[c].pending,
                                ![c].log = Append(@, "release")]
       ELSE /\ tx' = [tx EXCEPT ![c].pc = "done", ![c].outcome = tx[c].pending]
            /\ UNCHANGED runner
    /\ UNCHANGED <<driver, table, last, tree, unit, mgrs, repos, meta, stmt>>

\* the caller has consumed the settled promise; the slot is free again
TxReturn(c) ==
    /\ tx[c].pc = "done"
    /\ tx' = [tx EXCEPT ![c] = IdleCall]
    /\ runner' = [runner EXCEPT ![c] = FreshRunner]
    /\ UNCHANGED <<driver, table, last, tree, unit, mgrs, repos, meta, stmt>>

\* ------------------------------------------------------------------------
\* clear()
\* ------------------------------------------------------------------------

\* getMetadata(entityClass), then the runner is taken or created
ClearEnter(c, m, hasMetadata) ==
    /\ tx[c].pc = "idle"
    /\ LET hasRunner == HasQueryRunner(m)
           base == [IdleCall EXCEPT !.op = "clear", !.mgr = m]
       IN IF ~hasMetadata
          THEN /\ tx' = [tx EXCEPT ![c] = [base EXCEPT !.pc = "done",
                                                       !.outcome = "noMetadata"]]
               /\ UNCHANGED runner
          ELSE IF hasRunner
          THEN /\ tx' = [tx EXCEPT ![c] = [base EXCEPT !.pc = "clearTable"]]
               /\ UNCHANGED runner
          ELSE /\ tx' = [tx EXCEPT ![c] = [base EXCEPT !.pc = "clearTable",
                                                       !.created = TRUE,
                                                       !.log = <<"create">>]]
               /\ runner' = [runner EXCEPT ![c] = FreshRunner]
    /\ UNCHANGED <<driver, table, last, tree, unit, mgrs, repos, meta, stmt>>

\* return await queryRunner.clearTable(metadata.tablePath)
ClearTable(c) ==
    /\ tx[c].pc = "clearTable"
    /\ \/ tx' = [tx EXCEPT ![c].pc = "finally", ![c].pending = "resolved",
                           ![c].log = Append(@, "clearTable")]
       \/ tx' = [tx EXCEPT ![c].pc = "finally", ![c].err = "clearError",
                           ![c].pending = "clearError",
                           ![c].log = Append(@, "clearTable")]
    /\ UNCHANGED <<driver, runner, table, last, tree, unit, mgrs, repos, meta, stmt>>

\* ------------------------------------------------------------------------
\* release()
\* ------------------------------------------------------------------------

\* manager.release(): the caller gives back the runner its manager was built for
\* (a manager without a runner throws NoNeedToReleaseEntityManagerError)
ManagerRelease(m) ==
    /\ HasQueryRunner(m)
    /\ ~runner[SuppliedRunner].isReleased
    /\ runner' = [runner EXCEPT ![SuppliedRunner].isReleased = TRUE]
    /\ UNCHANGED <<driver, tx, table, last, tree, unit, mgrs, repos, meta, stmt>>

\* ------------------------------------------------------------------------
\* Stored rows and argument values
\* ------------------------------------------------------------------------

Ids == 1..MaxRows
Titles == {"cat", "dog"}
Rows == [id : Ids, title : Titles]

\* what a lookup resolves with when nothing is found (undefined)
Absent == [id |-> 0, title |-> "none"]

\* a JavaScript argument value: its kind, the ids it carries (an id as string
\* or number carries one, the empty string none, an array any number) and,
\* for a conditions object or find options, the title asked for
Val(k, ids, w) == [k |-> k, ids |-> ids, where |-> w]

Undefined == Val("undefined", <<>>, "none")

IdLists == UNION {[1..n -> Ids] : n \in 0..MaxListLen}

Values ==
    {Val(k, <<>>, "none") : k \in {"undefined", "null", "false"}}
    \cup {Val("string", <<>>, "none")}
    \cup {Val(k, <<i>>, "none") : k \in {"string", "number"}, i \in Ids}
    \cup {Val("array", l, "none") : l \in IdLists}
    \cup {Val("conditions", <<>>, t) : t \in Titles}
    \cup {Val("findOptions", <<>>, w) : w \in Titles \cup {"none"}}

\* criteria accepted by the signatures of update / delete / softDelete / restore
CriteriaValues ==
    {v \in Values : v.k \in {"undefined", "null", "string", "number", "array", "conditions"}}

\* argument lists of findOne / findOneOrFail: none, (criteria), (criteria, options)
FindArgLists ==
    {<<>>}
    \cup {<<a>> : a \in {v \in Values : v.k # "array"}}
    \cup {<<a, b>> : a \in {v \in Values : v.k # "array"},
                     b \in {v \in Values : v.k \in {"undefined", "findOptions"}}}

\* args[i], undefined when fewer arguments were passed
Arg(args, i) == IF i <= Len(args) THEN args[i] ELSE Undefined

\* ------------------------------------------------------------------------
\* Managers
\* ------------------------------------------------------------------------

\* EntityManagerFactory.create: the manager built for the connection's driver
FactoryCreate(drv) ==
    IF drv = "mongo" THEN "mongo"
    ELSE IF drv = "sqljs" THEN "sqljs"
    ELSE "default"

\* the managers a program can hold: the factory's, or `new EntityManager(connection)`
ManagerKinds == {"default", "sqljs", "mongo", "class"}

\* whose code runs for operation op on manager m: the Sqljs and MongoDB
\* managers spread the default one and MongoDB overrides update, delete, findOne
Implementation(m, op) ==
    IF m = "class" THEN "class"
    ELSE IF m = "mongo" /\ op \in {"update", "delete", "findOne"} THEN "mongo"
    ELSE "literal"

\* ------------------------------------------------------------------------
\* update / delete / softDelete / restore
\* ------------------------------------------------------------------------

CriteriaOps == {"update", "delete", "softDelete", "restore"}

\* an emptiness test that lets an empty array through
EmptyCriteriaScalarOnly(v) ==
    \/ v.k = "undefined"
    \/ v.k = "null"
    \/ (v.k = "string" /\ v.ids = <<>>)

\* criteria === undefined || criteria === null || criteria === "" ||
\* (Array.isArray(criteria) && criteria.length === 0)
EmptyCriteria(v) ==
    \/ v.k = "undefined"
    \/ v.k = "null"
    \/ (v.k = "string" /\ v.ids = <<>>)
    \/ (v.k = "array" /\ Len(v.ids) = 0)

\* typeof criteria === "string" || "number" || Date || Array: whereInIds(criteria)
UsesWhereInIds(v) == v.k \in {"string", "number", "date", "array"}

\* rows selected by whereInIds(criteria) or where(criteria)
CriteriaTargets(v, tbl) ==
    IF UsesWhereInIds(v)
    THEN {r \in tbl : \E i \in 1..Len(v.ids) : v.ids[i] = r.id}
    ELSE {r \in tbl : r.title = v.where}

\* the table after the statement of op has hit the rows in hit
ApplyStatement(op, hit, partial, tbl) ==
    IF op = "delete" THEN tbl \ hit
    ELSE IF op = "update"
    THEN (tbl \ hit) \cup {[id |-> r.id, title |-> partial] : r \in hit}
    ELSE tbl

OpResult(outcome, error, qb, queries, hit, after) ==
    [outcome |-> outcome, error |-> error, qb |-> qb, queries |-> queries,
     affected |-> {r.id : r \in hit}, after |-> after]

\* the default manager (and the class-based one): reject empty criteria,
\* otherwise one query builder, one statement restricted by the criteria
LiteralCriteriaOp(op, v, partial, tbl) ==
    IF EmptyCriteria(v)
    THEN {OpResult("rejected", "emptyCriteria", 0, 0, {}, tbl)}
    ELSE LET hit == CriteriaTargets(v, tbl)
         IN {OpResult("resolved", "none", 1, 1, hit, ApplyStatement(op, hit, partial, tbl))}

\* convertMixedCriteria + updateOne/deleteOne: the documents one criteria item
\* can hit (at most one); an absent id makes a fresh ObjectID, which hits none
MongoItemHits(v, tbl) ==
    IF v.k = "conditions"
    THEN LET match == {r \in tbl : r.title = v.where}
         IN IF match = {} THEN {{}} ELSE {{r} : r \in match}
    ELSE IF v.k \in {"undefined", "null"}
    THEN {{}}
    ELSE {{r \in tbl : \E i \in 1..Len(v.ids) : v.ids[i] = r.id}}

\* the MongoDB manager: an array is handled item by item, anything else goes
\* through convertMixedCriteria; there is no emptiness check
MongoCriteriaOp(op, v, partial, tbl) ==
    IF v.k = "array"
    THEN LET hit == {r \in tbl : \E i \in 1..Len(v.ids) : v.ids[i] = r.id}
         IN {OpResult("resolved", "none", 0, Len(v.ids), hit,
                      ApplyStatement(op, hit, partial, tbl))}
    ELSE IF v.k = "string" /\ v.ids = <<>>
    THEN {OpResult("rejected", "invalidObjectId", 0, 0, {}, tbl)}
    ELSE {OpResult("resolved", "none", 0, 1, hit, ApplyStatement(op, hit, partial, tbl)) :
              hit \in MongoItemHits(v, tbl)}

CriteriaOpResults(m, op, v, partial, tbl) ==
    IF Implementation(m, op) = "mongo"
    THEN MongoCriteriaOp(op, v, partial, tbl)
    ELSE LiteralCriteriaOp(op, v, partial, tbl)

NoLast == [op |-> "none", m |-> "default", via |-> "manager", args |-> <<>>,
           received |-> <<>>, partial |-> "none", before |-> {},
           outcome |-> "none", error |-> "none", errCriteria |-> Undefined,
           value |-> Absent, qb |-> 0, queries |-> 0, take |-> 0, affected |-> {}]

\* manager.update / delete / softDelete / restore (target, criteria[, partial])
CriteriaOp(m, op, v, partial) ==
    /\ m \in {FactoryCreate(driver), "class"}
    /\ ~(m = "class" /\ op \in {"softDelete", "restore"})
    /\ (op = "update") <=> (partial # "none")
    /\ \E res \in CriteriaOpResults(m, op, v, partial, table) :
        /\ table' = res.after
        /\ last' = [NoLast EXCEPT !.op = op, !.m = m, !.args = <<v>>, !.received = <<v>>,
                        !.partial = partial, !.before = table,
                        !.outcome = res.outcome, !.error = res.error,
                        !.qb = res.qb, !.queries = res.queries,
                        !.affected = res.affected]
    /\ UNCHANGED <<driver, runner, tx, tree, unit, mgrs, repos, meta, stmt>>

\* the caller has consumed the outcome of the last operation
Settle ==
    /\ last.op # "none"
    /\ last' = NoLast
    /\ UNCHANGED <<driver, runner, tx, table, tree, unit, mgrs, repos, meta, stmt>>

\* manager.save(entity) of a new entity: one row with a generated id
Save(t) ==
    /\ \E i \in Ids :
        /\ \A r \in table : r.id # i
        /\ table' = table \cup {[id |-> i, title |-> t]}
    /\ last' = [NoLast EXCEPT !.op = "save", !.before = table]
    /\ UNCHANGED <<driver, runner, tx, tree, unit, mgrs, repos, meta, stmt>>

\* ------------------------------------------------------------------------
\* findOne / findOneOrFail
\* ------------------------------------------------------------------------

\* FindOptionsUtils.isFindOptions: the value is a find-options object
IsFindOptions(v) == v.k = "findOptions"

\* value instanceof Object
InstanceOfObject(v) == v.k \in {"array", "conditions", "findOptions", "date"}

\* typeof value === "string" || typeof value === "number" || value instanceof Date
IsIdValue(v) == v.k \in {"string", "number", "date"}

\* JavaScript truthiness of an argument
Truthy(v) == ~(v.k \in {"undefined", "null", "false"} \/ (v.k = "string" /\ v.ids = <<>>))

\* a short-circuit test that forgets `false`
ExplicitlyAbsentNoFalse(args) ==
    Len(args) >= 1 /\ args[1].k \in {"undefined", "null"}

\* args.length >= 1 and the first argument is undefined, null or false
ExplicitlyAbsent(args) ==
    Len(args) >= 1 /\ args[1].k \in {"undefined", "null", "false"}

\* a repository that always passes two positional arguments on
RepositoryFindOneArgsPadded(args) == <<Arg(args, 1), Arg(args, 2)>>

\* Repository.findOne(...args) => manager.findOne(target, ...args)
RepositoryFindOneArgs(args) == args

\* findOneOrFail(entityClass, idOrOptionsOrConditions?, maybeOptions?) calls
\* this.findOne(entityClass, idOrOptionsOrConditions, maybeOptions)
FindOneOrFailArgs(args) == <<Arg(args, 1), Arg(args, 2)>>

FindPlan(kind, take, foWhere, where, byId, ids) ==
    [kind |-> kind, take |-> take, foWhere |-> foWhere, where |-> where,
     byId |-> byId, ids |-> ids]

\* a pick that never looks at the second argument
PickedFindOptionsFirstOnly(first, second) ==
    IF IsFindOptions(first) THEN first ELSE Undefined

\* the find options findOne picks: the first argument if it is one, else the second
PickedFindOptions(first, second) ==
    IF IsFindOptions(first) THEN first
    ELSE IF Truthy(second) /\ IsFindOptions(second) THEN second
    ELSE Undefined

\* findOne of the default manager: what it does before getOne()
LiteralFindPlan(args) ==
    LET first == Arg(args, 1)
        findOptions == PickedFindOptions(first, Arg(args, 2))
        options == InstanceOfObject(first) /\ ~IsFindOptions(first)
        findById == IsIdValue(first)
    IN IF Len(args) > MaxArgs THEN FindPlan("throw", 0, "none", "none", FALSE, <<>>)
       ELSE IF ExplicitlyAbsent(args) THEN FindPlan("absent", 0, "none", "none", FALSE, <<>>)
       ELSE FindPlan("query", IF findById THEN 0 ELSE 1, findOptions.where,
                     IF options THEN first.where ELSE "none",
                     ~options /\ findById, first.ids)

\* findOne of the class-based EntityManager
ClassFindPlan(args) ==
    LET first == Arg(args, 1)
        findOptions == PickedFindOptions(first, Arg(args, 2))
        options == InstanceOfObject(first) /\ ~IsFindOptions(first)
    IN FindPlan("query", IF IsFindOptions(findOptions) THEN 1 ELSE 0, findOptions.where,
                IF options THEN first.where ELSE "none",
                ~options /\ IsIdValue(first), first.ids)

\* findOne of the MongoDB manager: the query handed to the cursor, limit(1)
MongoFindPlan(args) ==
    LET first == Arg(args, 1)
        hasId == first.k = "string" /\ Truthy(first)
        o == IF hasId THEN Arg(args, 2) ELSE first
    IN IF Len(args) > MaxArgs THEN FindPlan("throw", 0, "none", "none", FALSE, <<>>)
       ELSE IF ExplicitlyAbsent(args) THEN FindPlan("absent", 0, "none", "none", FALSE, <<>>)
       ELSE FindPlan("query", 1,
                     IF Truthy(o) /\ IsFindOptions(o) THEN o.where ELSE "none",
                     IF Truthy(o) /\ o.k = "conditions" THEN o.where ELSE "none",
                     hasId, first.ids)

FindPlanOf(m, args) ==
    IF Implementation(m, "findOne") = "class" THEN ClassFindPlan(args)
    ELSE IF Implementation(m, "findOne") = "mongo" THEN MongoFindPlan(args)
    ELSE LiteralFindPlan(args)

\* rows the built query selects
Selected(plan, tbl) ==
    {r \in tbl : /\ plan.foWhere # "none" => r.title = plan.foWhere
                 /\ plan.where # "none" => r.title = plan.where
                 /\ plan.byId => \E i \in 1..Len(plan.ids) : plan.ids[i] = r.id}

\* what getOne() (or the cursor's first document) can resolve with
FindResults(plan, tbl) ==
    IF plan.kind = "absent" \/ Selected(plan, tbl) = {} THEN {Absent}
    ELSE Selected(plan, tbl)

\* query builders created / queries run for a plan on manager m
PlanQueryBuilders(m, plan) ==
    IF plan.kind = "query" /\ Implementation(m, "findOne") # "mongo" THEN 1 ELSE 0

PlanQueries(plan) == IF plan.kind = "query" THEN 1 ELSE 0

\* who can be asked: the factory's manager, the class-based manager, or a
\* repository of a (non-MongoDB) literal manager
CanAsk(m, via, args) ==
    /\ m \in {FactoryCreate(driver), "class"}
    /\ via = "repository" => m \in {"default", "sqljs"}
    /\ m = "mongo" => Arg(args, 1).k # "number"

\* manager.findOne(target, ...args) / repository.findOne(...args)
FindOne(m, via, args) ==
    /\ CanAsk(m, via, args)
    /\ LET received == IF via = "repository" THEN RepositoryFindOneArgs(args) ELSE args
           plan == FindPlanOf(m, received)
           base == [NoLast EXCEPT !.op = "findOne", !.m = m, !.via = via, !.args = args,
                        !.received = received, !.before = table, !.take = plan.take,
                        !.qb = PlanQueryBuilders(m, plan), !.queries = PlanQueries(plan)]
       IN IF plan.kind = "throw"
          THEN last' = [base EXCEPT !.outcome = "thrown", !.error = "tooManyArguments"]
          ELSE \E v \in FindResults(plan, table) :
                  last' = [base EXCEPT !.outcome = "resolved", !.value = v]
    /\ UNCHANGED <<driver, runner, tx, table, tree, unit, mgrs, repos, meta, stmt>>

\* manager.findOneOrFail(target, criteria?, options?) / repository.findOneOrFail(...)
FindOneOrFail(m, via, args) ==
    /\ CanAsk(m, via, args)
    /\ LET received == FindOneOrFailArgs(args)
           plan == FindPlanOf(m, received)
           base == [NoLast EXCEPT !.op = "findOneOrFail", !.m = m, !.via = via, !.args = args,
                        !.received = received, !.before = table, !.take = plan.take,
                        !.qb = PlanQueryBuilders(m, plan), !.queries = PlanQueries(plan)]
       IN \E v \in FindResults(plan, table) :
             IF v = Absent
             THEN last' = [base EXCEPT !.outcome = "rejected", !.error = "EntityNotFound",
                                       !.errCriteria = Arg(args, 1)]
             ELSE last' = [base EXCEPT !.outcome = "resolved", !.value = v]
    /\ UNCHANGED <<driver, runner, tx, table, tree, unit, mgrs, repos, meta, stmt>>

\* ------------------------------------------------------------------------
\* Specification of the transaction lifecycle
\* ------------------------------------------------------------------------

\* the caller awaits each transaction()/clear() before issuing the next one
Awaited == \A c \in Calls : tx[c].pc = "idle"

Init ==
    /\ driver \in DriverTypes
    /\ runner = [r \in RunnerIds |-> FreshRunner]
    /\ tx = [c \in Calls |-> IdleCall]
    /\ table = {}
    /\ last = NoLast
    /\ tree = EmptyTree
    /\ unit = NoUnit
    /\ mgrs = NoManagers
    /\ repos = NoRepositories
    /\ meta = NoBuild
    /\ stmt = NoStatement

Next ==
    \/ \E c \in Calls, m \in ManagerRefs, i \in BOOLEAN, s \in BOOLEAN :
            Awaited /\ TxEnter(c, m, i, s)
    \/ \E c \in Calls : TxStart(c)
    \/ \E c \in Calls : TxCallback(c)
    \/ \E c \in Calls : TxCommit(c)
    \/ \E c \in Calls : TxObserve(c)
    \/ \E c \in Calls : TxRollback(c)
    \/ \E c \in Calls : TxFinally(c)
    \/ \E c \in Calls : TxReturn(c)
    \/ \E c \in Calls, m \in ManagerRefs, h \in BOOLEAN :
            Awaited /\ ClearEnter(c, m, h)
    \/ \E c \in Calls : ClearTable(c)
    \/ \E m \in ManagerRefs : ManagerRelease(m)

Spec == Init /\ [][Next]_vars

\* ------------------------------------------------------------------------
\* Properties of the transaction lifecycle
\* ------------------------------------------------------------------------

\* operation e was issued by call c
Issued(c, e) == \E i \in 1..Len(tx[c].log) : tx[c].log[i] = e

\* how many times call c issued operation e
TimesIssued(c, e) == Cardinality({i \in 1..Len(tx[c].log) : tx[c].log[i] = e})

TransactionFailures == {"startError", "callbackError", "commitError"}

C2_AlreadyStartedFailsFast ==
    \A c \in Calls :
        (tx[c].op = "transaction" /\ tx[c].sawActive) =>
            /\ tx[c].pc = "done"
            /\ tx[c].log = <<>>
            /\ ~tx[c].created
            /\ tx[c].outcome \notin {"pending", "resolved"}
            /\ (tx[c].hasCallback /\ driver # "mongo" /\ ~tx[c].sawReleased) =>
                    tx[c].outcome = "alreadyStarted"

\* a well-formed call found its runner inside a transaction and was refused
C2_Witness ==
    \E c \in Calls :
        /\ tx[c].op = "transaction" /\ tx[c].mgr = "bound"
        /\ tx[c].hasCallback /\ tx[c].sawActive /\ ~tx[c].sawReleased
        /\ runner[SuppliedRunner].isTransactionActive
        /\ tx[c].outcome = "alreadyStarted"

\* C3: the observer pass runs only after a successful commit, and its failure
\* neither rolls the committed transaction back nor makes the call fail.
C3_ObserverFailureIsolated ==
    \A c \in Calls :
        /\ Issued(c, "observe") =>
                Issued(c, "commit") /\ tx[c].err # "commitError"
        /\ tx[c].err = "observerError" =>
                /\ ~Issued(c, "rollback")
                /\ tx[c].pc = "done" => tx[c].outcome = "resolved"

\* C4: transaction() and clear() release a runner exactly when they created
\* it: the caller's runner is never released by them, a created runner is
\* released once, on every path, by the time the call settles.
C4_ReleaseIffCreated ==
    /\ runner[SuppliedRunner].releasesByOps = 0
    /\ \A c \in Calls :
        /\ tx[c].created => ~HasQueryRunner(tx[c].mgr)
        /\ (tx[c].pc \notin {"idle", "done"}) =>
                (tx[c].created <=> ~HasQueryRunner(tx[c].mgr))
        /\ TimesIssued(c, "release") = (IF tx[c].created /\ tx[c].pc = "done" THEN 1 ELSE 0)
        /\ tx[c].created =>
                /\ runner[c].releasesByOps = TimesIssued(c, "release")
                /\ runner[c].isReleased <=> tx[c].pc = "done"

\* a call that created its runner failed in the observer pass and released it
C4_Witness ==
    \E c \in Calls :
        /\ tx[c].op = "transaction" /\ tx[c].pc = "done" /\ tx[c].created
        /\ tx[c].err = "observerError"
        /\ runner[c].isReleased /\ runner[c].releasesByOps = 1

\* C23: on a successful transaction() these happen once each and in this
\* order: startTransaction (given the isolation level exactly when one was
\* supplied), the callback with queryRunner.manager, commitTransaction, the
\* observer pass, then release of the runner if transaction() created it; the
\* result is the callback's and rollbackTransaction is never called.
C23_SuccessfulTransactionOrder ==
    \A c \in Calls :
        (tx[c].op = "transaction" /\ tx[c].pc = "done" /\ tx[c].outcome = "resolved") =>
            /\ tx[c].log = (IF tx[c].created THEN <<"create">> ELSE <<>>)
                              \o <<"start", "callback", "commit", "observe">>
                              \o (IF tx[c].created THEN <<"release">> ELSE <<>>)
            /\ tx[c].created <=> ~HasQueryRunner(tx[c].mgr)
            /\ tx[c].started = (IF tx[c].isolation THEN "(isolation)" ELSE "()")
            /\ tx[c].handed = "queryRunner.manager"
            /\ tx[c].result \in CallbackResults
            /\ ~Issued(c, "rollback")

\* a call with an isolation level on a manager without a runner succeeded
C23_Witness ==
    \E c \in Calls :
        /\ tx[c].op = "transaction" /\ tx[c].pc = "done" /\ tx[c].outcome = "resolved"
        /\ tx[c].isolation /\ tx[c].created
        /\ tx[c].started = "(isolation)"
        /\ Len(tx[c].log) = 6

\* C19: transaction() fails at once, without creating a query runner, starting
\* a transaction or invoking the callback, and is not tried again, when no
\* callback is supplied, when the driver is MongoDB, or when the manager's
\* own query runner has been released.
C19_TransactionRefused ==
    \A c \in Calls :
        (/\ tx[c].op = "transaction"
         /\ (~tx[c].hasCallback \/ driver = "mongo" \/ tx[c].sawReleased)) =>
            /\ tx[c].pc = "done"
            /\ tx[c].log = <<>>
            /\ ~tx[c].created
            /\ tx[c].outcome =
                  (IF ~tx[c].hasCallback THEN "noCallback"
                   ELSE IF driver = "mongo" THEN "mongoNotSupported"
                   ELSE "alreadyReleased")
            /\ \A r \in Calls : runner[r] = FreshRunner

\* a call with a callback on the manager of a released runner was refused
C19_Witness ==
    \E c \in Calls :
        /\ tx[c].op = "transaction" /\ tx[c].mgr = "bound" /\ driver # "mongo"
        /\ tx[c].hasCallback /\ tx[c].sawReleased
        /\ runner[SuppliedRunner].isReleased
        /\ tx[c].outcome = "alreadyReleased"

\* ------------------------------------------------------------------------
\* Specification of the criteria and lookup operations
\* ------------------------------------------------------------------------

InitData == Init

\* the caller awaits each operation before issuing the next one
Settled == last.op = "none"

NextData ==
    \/ \E t \in Titles : Settled /\ Save(t)
    \/ \E m \in ManagerKinds, op \in CriteriaOps, v \in CriteriaValues,
          p \in Titles \cup {"none"} : Settled /\ CriteriaOp(m, op, v, p)
    \/ \E m \in ManagerKinds, via \in {"manager", "repository"}, args \in FindArgLists :
          Settled /\ FindOne(m, via, args)
    \/ \E m \in ManagerKinds, via \in {"manager", "repository"}, args \in FindArgLists :
          Settled /\ FindOneOrFail(m, via, args)
    \/ Settle

SpecData == InitData /\ [][NextData]_vars

\* ------------------------------------------------------------------------
\* Properties of the criteria and lookup operations
\* ------------------------------------------------------------------------

\* undefined, null, "" and []
EmptyValues ==
    {Val("undefined", <<>>, "none"), Val("null", <<>>, "none"),
     Val("string", <<>>, "none"), Val("array", <<>>, "none")}

\* undefined, null and false
AbsentValues ==
    {Val("undefined", <<>>, "none"), Val("null", <<>>, "none"), Val("false", <<>>, "none")}

\* C5: update, delete, softDelete and restore of the default manager reject
\* undefined, null, "" and [] as criteria before a query builder is created or
\* a query is run; nothing is stored, no row is touched.
C5_EmptyCriteriaRejected ==
    (/\ last.op \in CriteriaOps
     /\ Implementation(last.m, last.op) # "mongo"
     /\ last.args[1] \in EmptyValues) =>
        /\ last.outcome = "rejected"
        /\ last.error = "emptyCriteria"
        /\ last.qb = 0 /\ last.queries = 0
        /\ last.affected = {}
        /\ table = last.before

\* softDelete with [] on a non-empty table of the default manager was rejected
C5_Witness ==
    /\ last.op = "softDelete" /\ last.m = "default"
    /\ last.args = <<Val("array", <<>>, "none")>>
    /\ last.before # {}
    /\ last.outcome = "rejected"

\* C6: on every manager the factory can return (default, Sqljs, MongoDB),
\* delete(target, []) and update(target, "", partial) fail before touching
\* storage and are never a no-op that reports success.
C6_EmptyCriteriaRejectedEverywhere ==
    (/\ last.op \in {"update", "delete"}
     /\ last.m \in {"default", "sqljs", "mongo"}
     /\ last.args[1] \in {Val("array", <<>>, "none"), Val("string", <<>>, "none")}) =>
        /\ last.outcome = "rejected"
        /\ last.queries = 0
        /\ table = last.before

\* C7: findOne with an explicit first argument undefined, null or false
\* resolves to absence and runs no query, whatever the table holds: on the
\* default manager, through a repository, and on the MongoDB manager.
C7_ExplicitAbsentShortCircuits ==
    (/\ last.op = "findOne"
     /\ last.m \in {"default", "sqljs", "mongo"}
     /\ Len(last.args) >= 1
     /\ last.args[1] \in AbsentValues) =>
        /\ last.outcome = "resolved"
        /\ last.value = Absent
        /\ last.qb = 0 /\ last.queries = 0

\* repository.findOne(false) on a full table resolved to absence without a query
C7_Witness ==
    /\ last.op = "findOne" /\ last.m = "default" /\ last.via = "repository"
    /\ last.args = <<Val("false", <<>>, "none")>>
    /\ Cardinality(last.before) = MaxRows
    /\ last.outcome = "resolved" /\ last.value = Absent /\ last.queries = 0

\* C8: findOneOrFail resolves with an entity exactly when findOne with the
\* same arguments would, and rejects with EntityNotFoundError (carrying the
\* criteria) exactly when findOne would resolve to absence; for every argument
\* shape, the call without criteria on a non-empty table included.
C8_FindOneOrFailMirrorsFindOne ==
    (last.op = "findOneOrFail" /\ last.m \in {"default", "sqljs"}) =>
        LET would == FindResults(FindPlanOf(last.m, RepositoryFindOneArgs(last.args)),
                                 last.before)
        IN /\ last.outcome = "resolved" <=> Absent \notin would
           /\ last.outcome = "resolved" => last.value \in would
           /\ last.outcome = "rejected" <=> Absent \in would
           /\ last.outcome = "rejected" =>
                  last.error = "EntityNotFound" /\ last.errCriteria = Arg(last.args, 1)

\* C9: findOne without a criteria argument returns one stored row whenever the
\* table is not empty, limited to one row; Repository.findOne hands the
\* manager exactly the arguments it got, so "no argument" is not turned into
\* "explicit undefined".
C9_NoArgumentFindsOne ==
    (last.op = "findOne" /\ last.m \in {"default", "sqljs"}) =>
        /\ last.received = last.args
        /\ Len(last.args) = 0 =>
              /\ last.outcome = "resolved"
              /\ last.take = 1 /\ last.queries = 1
              /\ last.before # {} => last.value \in last.before
              /\ last.before = {} => last.value = Absent

\* repository.findOne() on a full table resolved with one of its rows
C9_Witness ==
    /\ last.op = "findOne" /\ last.m = "default" /\ last.via = "repository"
    /\ last.args = <<>>
    /\ Cardinality(last.before) = MaxRows
    /\ last.outcome = "resolved" /\ last.value \in last.before

\* C10: the class-based EntityManager.findOne(entityClass, undefined) and
\* findOne(entityClass, null) resolve to absence, never to a row of the table.
C10_ClassFindOneAbsent ==
    (/\ last.op = "findOne" /\ last.m = "class"
     /\ Len(last.args) >= 1
     /\ last.args[1] \in {Val("undefined", <<>>, "none"), Val("null", <<>>, "none")}) =>
        /\ last.outcome = "resolved"
        /\ last.value = Absent

\* an id value that names one row
IsRowId(v) == v.k \in {"string", "number"} /\ Len(v.ids) = 1

\* C11: findOne with a conditions object resolves with a stored row that
\* satisfies the conditions when there is one and with absence when there is
\* none; findOne with an id and find options holding a where resolves with the
\* row of that id when it satisfies the where and with absence otherwise.
C11_FindOneHonoursCriteria ==
    (last.op = "findOne" /\ last.m \in {"default", "sqljs"} /\ Len(last.args) >= 1) =>
        LET first == last.args[1]
            second == Arg(last.args, 2)
            byConditions == {r \in last.before : r.title = first.where}
            byIdAndWhere == {r \in last.before : r.id = first.ids[1] /\ r.title = second.where}
        IN /\ (first.k = "conditions" /\ second.k = "undefined") =>
                /\ last.outcome = "resolved"
                /\ byConditions # {} => last.value \in byConditions
                /\ byConditions = {} => last.value = Absent
           /\ (IsRowId(first) /\ second.k = "findOptions" /\ second.where # "none") =>
                /\ last.outcome = "resolved"
                /\ byIdAndWhere # {} => last.value \in byIdAndWhere
                /\ byIdAndWhere = {} => last.value = Absent

\* the row of the given id is stored but does not satisfy the where: absence
C11_Witness ==
    /\ last.op = "findOne" /\ last.m = "default" /\ Len(last.args) = 2
    /\ IsRowId(last.args[1]) /\ last.args[2].k = "findOptions"
    /\ \E r \in last.before : r.id = last.args[1].ids[1] /\ r.title # last.args[2].where
    /\ last.args[2].where # "none"
    /\ last.outcome = "resolved" /\ last.value = Absent

\* ------------------------------------------------------------------------
\* Tree repositories: metadata, stored encodings
\* ------------------------------------------------------------------------

\* number of nodes the stored tree can hold (nodes 1..MaxNodes)
MaxNodes == 3

Nodes == 1..MaxNodes

\* SQL NULL / JavaScript null, and JavaScript undefined, as column values
Null == -1
Undef == -2

\* metadata.treeType; "adjacency-list" has a parent relation but none of the
\* three supported encodings, "none" is metadata without any tree descriptor
\* (treeType and treeParentRelation undefined)
TreeTypes == {"closure-table", "nested-set", "materialized-path", "adjacency-list", "none"}

SupportedTreeTypes == {"closure-table", "nested-set", "materialized-path"}

\* the primary key of the tree entity:
\*   "id"       one column, property id
\*   "key"      one column, property key
\*   "pair"     two columns, properties a and b
\*   "embedded" two columns, properties x and y of two embedded objects
KeyLayouts == {"id", "key", "pair", "embedded"}

\* metadata.primaryColumns: propertyPath and propertyName of each column
PrimaryColumns(layout) ==
    IF layout = "id" THEN <<[path |-> "id", name |-> "id"]>>
    ELSE IF layout = "key" THEN <<[path |-> "key", name |-> "key"]>>
    ELSE IF layout = "pair" THEN <<[path |-> "a", name |-> "a"], [path |-> "b", name |-> "b"]>>
    ELSE <<[path |-> "first.x", name |-> "x"], [path |-> "second.y", name |-> "y"]>>

KeyColumns(layout) == DOMAIN PrimaryColumns(layout)

\* column.getEntityValue(entity) for key column i of node n: a one-column key
\* is the node number, a two-column key splits it into two values
KeyValue(layout, n, i) ==
    IF Len(PrimaryColumns(layout)) = 1 THEN n
    ELSE IF i = 1 THEN (n - 1) \div 2
    ELSE (n - 1) % 2

\* entity.id read from an entity object
EntityIdProperty(layout, n) == IF layout = "id" THEN n ELSE Undef

\* rows of the tree table
Stored(parent) == DOMAIN parent

RECURSIVE AncestorsOrSelf(_, _)
AncestorsOrSelf(parent, n) ==
    IF n = 0 THEN {} ELSE {n} \cup AncestorsOrSelf(parent, parent[n])

\* the logical descendants of a stored node, itself included
DescendantsOrSelf(parent, n) == {d \in Stored(parent) : n \in AncestorsOrSelf(parent, d)}

\* closure junction table: one row per (ancestor, descendant), the node itself included
ClosureRows(parent) ==
    UNION {{[ancestor |-> a, descendant |-> d] : a \in AncestorsOrSelf(parent, d)} :
               d \in Stored(parent)}

\* nested set: the number of nodes of the subtree of n
SubtreeSize(parent, n) == Cardinality(DescendantsOrSelf(parent, n))

\* nested set: depth-first numbering, children in the order they were inserted
RECURSIVE NestedSetLeft(_, _)
NestedSetLeft(parent, n) ==
    IF parent[n] = 0 THEN 1
    ELSE LET before == {c \in Stored(parent) : parent[c] = parent[n] /\ c < n}
             width(c) == 2 * SubtreeSize(parent, c)
             Sum[S \in SUBSET before] ==
                 IF S = {} THEN 0
                 ELSE LET c == CHOOSE x \in S : TRUE IN width(c) + Sum[S \ {c}]
         IN NestedSetLeft(parent, parent[n]) + 1 + Sum[before]

NestedSetRight(parent, n) == NestedSetLeft(parent, n) + 2 * SubtreeSize(parent, n) - 1

\* materialized path: the path of the parent followed by the node's own
\* segment (its id and the separator)
RECURSIVE MaterializedPath(_, _)
MaterializedPath(parent, n) ==
    IF parent[n] = 0 THEN <<n>>
    ELSE Append(MaterializedPath(parent, parent[n]), n)

\* string a LIKE CONCAT(b, '%'): b is a prefix of a
IsPrefix(b, a) == Len(b) <= Len(a) /\ SubSeq(a, 1, Len(b)) = b

\* ------------------------------------------------------------------------
\* Tree repositories: the query builders
\* ------------------------------------------------------------------------

\* the parameters object of the closure-table branches, filled column by
\* column under the column's propertyName: a later column with the same
\* propertyName overwrites the earlier one
ClosureParameters(layout, n) ==
    LET cols == PrimaryColumns(layout)
        lastOf(nm) == CHOOSE i \in DOMAIN cols :
                          /\ cols[i].name = nm
                          /\ \A j \in DOMAIN cols : cols[j].name = nm => j <= i
    IN [nm \in {cols[i].name : i \in DOMAIN cols} |-> KeyValue(layout, n, lastOf(nm))]

\* propertyPath.replace(".", "_")
NestedSetParameterName(path) ==
    IF path = "first.x" THEN "first_x"
    ELSE IF path = "second.y" THEN "second_y"
    ELSE path

\* the parameters object of the nested-set branches, one name per column path
NestedSetParameters(layout, n) ==
    LET cols == PrimaryColumns(layout)
    IN [nm \in {NestedSetParameterName(cols[i].path) : i \in DOMAIN cols} |->
            KeyValue(layout, n,
                     CHOOSE i \in DOMAIN cols : NestedSetParameterName(cols[i].path) = nm)]

\* metadata.getEntityIdMap(entity): the value of every key column
EntityIdMap(layout, n) == [i \in KeyColumns(layout) |-> KeyValue(layout, n, i)]

\* a closure-table query that filters on the first key column only
ClosureQueryFirstColumnOnly(layout, n, joinSide, whereSide) ==
    [kind |-> "closure",
     join |-> {[junction |-> joinSide, column |-> i, target |-> i] : i \in KeyColumns(layout)},
     where |-> {[junction |-> whereSide, column |-> 1,
                 parameter |-> PrimaryColumns(layout)[1].name]},
     parameters |-> ClosureParameters(layout, n)]

\* closure-table: junction columns of joinSide joined to the target row's key
\* columns, junction columns of whereSide compared with the parameters
ClosureQuery(layout, n, joinSide, whereSide) ==
    [kind |-> "closure",
     join |-> {[junction |-> joinSide, column |-> i, target |-> i] : i \in KeyColumns(layout)},
     where |-> {[junction |-> whereSide, column |-> i,
                 parameter |-> PrimaryColumns(layout)[i].name] : i \in KeyColumns(layout)},
     parameters |-> ClosureParameters(layout, n)]

\* nested-set: self-join "joined", restricted to the entity's row by its key
NestedSetQuery(layout, n, direction) ==
    [kind |-> "nested", direction |-> direction,
     where |-> {[column |-> i,
                 parameter |-> NestedSetParameterName(PrimaryColumns(layout)[i].path)] :
                    i \in KeyColumns(layout)},
     parameters |-> NestedSetParameters(layout, n)]

\* materialized-path: a sub-query selects the stored path of the entity's row
MaterializedPathQuery(layout, n, direction) ==
    [kind |-> "path", direction |-> direction, ids |-> EntityIdMap(layout, n)]

NotTreeEntity == [kind |-> "throw"]

\* a builder whose materialized-path branch has the operands of LIKE swapped
CreateDescendantsQueryBuilderSwapped(treeType, layout, e) ==
    IF treeType = "closure-table" THEN ClosureQuery(layout, e.node, "descendant", "ancestor")
    ELSE IF treeType = "nested-set" THEN NestedSetQuery(layout, e.node, "descendants")
    ELSE IF treeType = "materialized-path" THEN MaterializedPathQuery(layout, e.node, "ancestors")
    ELSE NotTreeEntity

\* createDescendantsQueryBuilder(alias, closureTableAlias, entity)
CreateDescendantsQueryBuilder(treeType, layout, e) ==
    IF treeType = "closure-table" THEN ClosureQuery(layout, e.node, "descendant", "ancestor")
    ELSE IF treeType = "nested-set" THEN NestedSetQuery(layout, e.node, "descendants")
    ELSE IF treeType = "materialized-path" THEN MaterializedPathQuery(layout, e.node, "descendants")
    ELSE NotTreeEntity

\* a builder whose nested-set branch compares the boundaries the way the
\* descendants query does
CreateAncestorsQueryBuilderSameSide(treeType, layout, e) ==
    IF treeType = "closure-table" THEN ClosureQuery(layout, e.node, "ancestor", "descendant")
    ELSE IF treeType = "nested-set" THEN NestedSetQuery(layout, e.node, "descendants")
    ELSE IF treeType = "materialized-path" THEN MaterializedPathQuery(layout, e.node, "ancestors")
    ELSE NotTreeEntity

\* createAncestorsQueryBuilder(alias, closureTableAlias, entity)
CreateAncestorsQueryBuilder(treeType, layout, e) ==
    IF treeType = "closure-table" THEN ClosureQuery(layout, e.node, "ancestor", "descendant")
    ELSE IF treeType = "nested-set" THEN NestedSetQuery(layout, e.node, "ancestors")
    ELSE IF treeType = "materialized-path" THEN MaterializedPathQuery(layout, e.node, "ancestors")
    ELSE NotTreeEntity

\* a BETWEEN b AND c, without its bounds
BetweenExclusive(a, b, c) == b < a /\ a < c

\* a BETWEEN b AND c
Between(a, b, c) == b <= a /\ a <= c

\* the rows a built query selects from the stored tree
RunQuery(q, layout, parent) ==
    IF q.kind = "closure"
    THEN {r \in Stored(parent) : \E j \in ClosureRows(parent) :
            /\ \A c \in q.join :
                  KeyValue(layout, j[c.junction], c.column) = KeyValue(layout, r, c.target)
            /\ \A w \in q.where :
                  KeyValue(layout, j[w.junction], w.column) = q.parameters[w.parameter]}
    ELSE IF q.kind = "nested"
    THEN {r \in Stored(parent) : \E j \in Stored(parent) :
            /\ \A w \in q.where : KeyValue(layout, j, w.column) = q.parameters[w.parameter]
            /\ IF q.direction = "descendants"
               THEN Between(NestedSetLeft(parent, r),
                            NestedSetLeft(parent, j), NestedSetRight(parent, j))
               ELSE Between(NestedSetLeft(parent, j),
                            NestedSetLeft(parent, r), NestedSetRight(parent, r))}
    ELSE LET sub == {MaterializedPath(parent, x) :
                        x \in {y \in Stored(parent) : EntityIdMap(layout, y) = q.ids}}
         IN {r \in Stored(parent) : \E path \in sub :
                IF q.direction = "descendants"
                THEN IsPrefix(path, MaterializedPath(parent, r))
                ELSE IsPrefix(MaterializedPath(parent, r), path)}

\* ------------------------------------------------------------------------
\* Tree repositories: building the nested result
\* ------------------------------------------------------------------------

\* the selected entities, in the order of their rows
RECURSIVE InRowOrder(_)
InRowOrder(S) ==
    IF S = {} THEN <<>>
    ELSE LET n == CHOOSE x \in S : \A y \in S : x <= y
         IN <<n>> \o InRowOrder(S \ {n})

\* the raw rows of getRawAndEntities(); a join may repeat a row
RECURSIVE RawRows(_, _)
RawRows(entities, duplicated) ==
    IF entities = <<>> THEN <<>>
    ELSE (IF duplicated THEN <<Head(entities), Head(entities)>> ELSE <<Head(entities)>>)
         \o RawRows(Tail(entities), duplicated)

\* createRelationMaps: id and parentId of each raw row, read from the first
\* primary column and the first join column of the parent relation
CreateRelationMaps(layout, parent, raw) ==
    [k \in DOMAIN raw |->
        [id |-> KeyValue(layout, raw[k], 1),
         parentId |-> IF parent[raw[k]] = 0 THEN Null
                      ELSE KeyValue(layout, parent[raw[k]], 1)]]

\* buildChildrenEntityTree: the children attached to the entity and, through
\* recursion, to every attached child; one record per node reached
RECURSIVE BuildChildrenEntityTree(_, _, _, _)
BuildChildrenEntityTree(layout, n, entities, relationMaps) ==
    LET parentEntityId == KeyValue(layout, n, 1)
        childIds == {relationMaps[k].id :
                        k \in {x \in DOMAIN relationMaps :
                                  relationMaps[x].parentId = parentEntityId}}
        children == SelectSeq(entities, LAMBDA x : EntityIdProperty(layout, x) \in childIds)
    IN {[node |-> n, children |-> children]} \cup
       UNION {BuildChildrenEntityTree(layout, children[k], entities, relationMaps) :
                 k \in DOMAIN children}

\* entity[metadata.primaryColumns[0].propertyName]
FirstPrimaryProperty(layout, n) ==
    IF layout = "embedded" THEN Undef ELSE KeyValue(layout, n, 1)

\* buildParentEntityTree: the parent attached to the entity and, through
\* recursion, to every attached parent; one record per attachment
RECURSIVE BuildParentEntityTree(_, _, _, _)
BuildParentEntityTree(layout, n, entities, relationMaps) ==
    LET entityId == KeyValue(layout, n, 1)
        found == {k \in DOMAIN relationMaps : relationMaps[k].id = entityId}
        parentId == relationMaps[CHOOSE k \in found : \A x \in found : k <= x].parentId
        matches == {k \in DOMAIN entities :
                       found # {} /\ FirstPrimaryProperty(layout, entities[k]) = parentId}
        parentEntity == entities[CHOOSE k \in matches : \A x \in matches : k <= x]
    IN IF matches = {} THEN {}
       ELSE {[node |-> n, parent |-> parentEntity]} \cup
            BuildParentEntityTree(layout, parentEntity, entities, relationMaps)

\* ------------------------------------------------------------------------
\* Tree repositories: the operations
\* ------------------------------------------------------------------------

TreeOps == {"findRoots", "findTrees", "findDescendants", "findDescendantsTree",
            "countDescendants", "findAncestors", "findAncestorsTree", "countAncestors"}

\* findRoots names the parent column joinColumnName(parentProperty, "id"):
\* the column exists when the referenced primary column is the single column id
ParentColumnExists(layout) == layout = "id"

TreeResult(outcome, error) ==
    [NoTreeCall EXCEPT !.outcome = outcome, !.error = error]

\* findRoots()
FindRoots(treeType, layout, parent) ==
    IF treeType = "none" THEN TreeResult("thrown", "TypeError")
    ELSE IF ~ParentColumnExists(layout) THEN TreeResult("rejected", "QueryFailedError")
    ELSE [TreeResult("resolved", "none") EXCEPT
             !.ids = {n \in Stored(parent) : parent[n] = 0}]

\* findDescendants / countDescendants / findAncestors / countAncestors:
\* getMany() or getCount() on the built query
FindMany(q, layout, parent) ==
    IF q.kind = "throw" THEN TreeResult("thrown", "SupportedOnlyInTreeEntities")
    ELSE [TreeResult("resolved", "none") EXCEPT
             !.query = q,
             !.ids = RunQuery(q, layout, parent),
             !.count = Cardinality(RunQuery(q, layout, parent))]

\* findDescendantsTree(entity)
FindDescendantsTree(treeType, layout, e, duplicated, parent) ==
    LET q == CreateDescendantsQueryBuilder(treeType, layout, e)
        entities == InRowOrder(RunQuery(q, layout, parent))
        relationMaps == CreateRelationMaps(layout, parent, RawRows(entities, duplicated))
    IN IF q.kind = "throw" THEN TreeResult("thrown", "SupportedOnlyInTreeEntities")
       ELSE [TreeResult("resolved", "none") EXCEPT
                !.query = q, !.ids = {e.node}, !.entities = entities,
                !.children = BuildChildrenEntityTree(layout, e.node, entities, relationMaps)]

\* findAncestorsTree(entity)
FindAncestorsTree(treeType, layout, e, duplicated, parent) ==
    LET q == CreateAncestorsQueryBuilder(treeType, layout, e)
        entities == InRowOrder(RunQuery(q, layout, parent))
        relationMaps == CreateRelationMaps(layout, parent, RawRows(entities, duplicated))
    IN IF q.kind = "throw" THEN TreeResult("thrown", "SupportedOnlyInTreeEntities")
       ELSE [TreeResult("resolved", "none") EXCEPT
                !.query = q, !.ids = {e.node}, !.entities = entities,
                !.parents = BuildParentEntityTree(layout, e.node, entities, relationMaps)]

\* findTrees(): the roots, then findDescendantsTree on each of them
FindTrees(treeType, layout, duplicated, parent) ==
    LET roots == FindRoots(treeType, layout, parent)
        trees == {FindDescendantsTree(treeType, layout,
                                      [node |-> r, mpath |-> MaterializedPath(parent, r)],
                                      duplicated, parent) : r \in roots.ids}
    IN IF roots.outcome # "resolved"
       THEN TreeResult("rejected", roots.error)
       ELSE IF \E t \in trees : t.outcome # "resolved"
       THEN TreeResult("rejected", "SupportedOnlyInTreeEntities")
       ELSE [TreeResult("resolved", "none") EXCEPT
                !.ids = roots.ids,
                !.children = UNION {t.children : t \in trees}]

TreeCallResult(op, treeType, layout, e, duplicated, parent) ==
    IF op = "findRoots" THEN FindRoots(treeType, layout, parent)
    ELSE IF op = "findTrees" THEN FindTrees(treeType, layout, duplicated, parent)
    ELSE IF op \in {"findDescendants", "countDescendants"}
    THEN FindMany(CreateDescendantsQueryBuilder(treeType, layout, e), layout, parent)
    ELSE IF op \in {"findAncestors", "countAncestors"}
    THEN FindMany(CreateAncestorsQueryBuilder(treeType, layout, e), layout, parent)
    ELSE IF op = "findDescendantsTree"
    THEN FindDescendantsTree(treeType, layout, e, duplicated, parent)
    ELSE FindAncestorsTree(treeType, layout, e, duplicated, parent)

\* the entity objects a caller can pass: a node with its path column as
\* loaded, or with a path column that was never loaded
TreeEntities(parent) ==
    {[node |-> n, mpath |-> <<>>] : n \in Nodes}
    \cup {[node |-> n, mpath |-> MaterializedPath(parent, n)] : n \in Stored(parent)}

\* save of a new tree entity under parent p (0: as the root); the three
\* encodings of the tree are kept up to date with it
TreeInsert(p) ==
    /\ Len(tree.parent) < MaxNodes
    /\ p \in 0..Len(tree.parent)
    /\ (p = 0) <=> (tree.parent = <<>>)
    /\ tree' = [tree EXCEPT !.parent = Append(tree.parent, p)]
    /\ UNCHANGED <<driver, runner, tx, table, last, unit, mgrs, repos, meta, stmt>>

\* a call of one of the tree repository operations on the repository of an
\* entity with the given tree type and key layout
TreeCall(op, treeType, layout, e, duplicated) ==
    /\ e \in TreeEntities(tree.parent)
    /\ op \in {"findRoots", "findTrees"} => e = [node |-> 1, mpath |-> <<>>]
    /\ duplicated => op \in {"findTrees", "findDescendantsTree", "findAncestorsTree"}
    /\ tree' = [tree EXCEPT !.last =
                   [TreeCallResult(op, treeType, layout, e, duplicated, tree.parent) EXCEPT
                       !.op = op, !.treeType = treeType, !.layout = layout,
                       !.entity = e, !.duplicated = duplicated]]
    /\ UNCHANGED <<driver, runner, tx, table, last, unit, mgrs, repos, meta, stmt>>

\* the caller has consumed the outcome of the last tree repository call
TreeSettle ==
    /\ tree.last.op # "none"
    /\ tree' = [tree EXCEPT !.last = NoTreeCall]
    /\ UNCHANGED <<driver, runner, tx, table, last, unit, mgrs, repos, meta, stmt>>

\* ------------------------------------------------------------------------
\* Specification of the tree repositories
\* ------------------------------------------------------------------------

\* the tree repositories of a connection of the default driver
InitTree == Init /\ driver = "default"

TreeSettled == tree.last.op = "none"

NextTree ==
    \/ \E p \in 0..MaxNodes : TreeSettled /\ TreeInsert(p)
    \/ \E op \in TreeOps, treeType \in TreeTypes, layout \in KeyLayouts,
          n \in Nodes, path \in {<<>>} \cup {MaterializedPath(tree.parent, x) : x \in Stored(tree.parent)},
          duplicated \in BOOLEAN :
            TreeSettled /\ TreeCall(op, treeType, layout, [node |-> n, mpath |-> path], duplicated)
    \/ TreeSettle

SpecTree == InitTree /\ [][NextTree]_vars

\* ------------------------------------------------------------------------
\* Properties of the tree repositories
\* ------------------------------------------------------------------------

\* the entity of the last call is a stored row
EntityStored == tree.last.entity.node \in Stored(tree.parent)

\* stored boundary values and path of the entity of the last call
EntityLeft == NestedSetLeft(tree.parent, tree.last.entity.node)
EntityRight == NestedSetRight(tree.parent, tree.last.entity.node)
EntityPath == MaterializedPath(tree.parent, tree.last.entity.node)

\* C12: every tree repository operation called for metadata without a tree
\* descriptor, or with a tree type other than closure-table, nested-set and
\* materialized-path, fails with the 'supported only in tree entities' error.
C12_NonTreeOperationsFail ==
    (tree.last.op \in TreeOps /\ tree.last.treeType \notin SupportedTreeTypes) =>
        /\ tree.last.outcome \in {"thrown", "rejected"}
        /\ tree.last.error = "SupportedOnlyInTreeEntities"

\* C13 as stated: under nested-set the descendants query for E selects exactly
\* the rows whose left value lies strictly between E's left and right values.
C13_NestedSetStrictlyBetween ==
    (/\ tree.last.op = "findDescendants" /\ tree.last.treeType = "nested-set"
     /\ EntityStored) =>
        /\ tree.last.outcome = "resolved"
        /\ tree.last.ids = {r \in Stored(tree.parent) :
                               /\ EntityLeft < NestedSetLeft(tree.parent, r)
                               /\ NestedSetLeft(tree.parent, r) < EntityRight}

\* C13 as amended: under nested-set the descendants query for E selects
\* exactly the rows whose left value lies between E's stored left and right
\* values, the bounds included: E's own row and the rows strictly inside, which
\* are E and its descendants in the stored tree.
C13_NestedSetBetweenInclusive ==
    (/\ tree.last.op = "findDescendants" /\ tree.last.treeType = "nested-set"
     /\ EntityStored) =>
        /\ tree.last.outcome = "resolved"
        /\ tree.last.ids = {r \in Stored(tree.parent) :
                               /\ EntityLeft <= NestedSetLeft(tree.parent, r)
                               /\ NestedSetLeft(tree.parent, r) <= EntityRight}
        /\ tree.last.ids = {tree.last.entity.node} \cup
                           {r \in Stored(tree.parent) :
                               /\ EntityLeft < NestedSetLeft(tree.parent, r)
                               /\ NestedSetLeft(tree.parent, r) < EntityRight}
        /\ tree.last.ids = DescendantsOrSelf(tree.parent, tree.last.entity.node)

\* nested-set descendants of a node that has a parent and a child: the node
\* and its child are selected, its parent is not
C13_Witness ==
    /\ tree.last.op = "findDescendants" /\ tree.last.treeType = "nested-set"
    /\ tree.last.outcome = "resolved"
    /\ EntityStored
    /\ tree.parent[tree.last.entity.node] # 0
    /\ tree.last.entity.node \in tree.last.ids
    /\ \E r \in tree.last.ids : tree.parent[r] = tree.last.entity.node
    /\ tree.parent[tree.last.entity.node] \notin tree.last.ids

\* C14: under materialized-path the descendants query for E selects exactly
\* the rows whose path starts with E's stored path and the ancestors query
\* exactly the rows whose path is a prefix of E's stored path; the path of E
\* comes from a sub-query on E's key, not from the entity object passed in.
C14_MaterializedPathPrefix ==
    (/\ tree.last.op \in {"findDescendants", "countDescendants",
                          "findAncestors", "countAncestors"}
     /\ tree.last.treeType = "materialized-path"
     /\ EntityStored) =>
        /\ tree.last.outcome = "resolved"
        /\ tree.last.query.kind = "path"
        /\ tree.last.query.ids = EntityIdMap(tree.last.layout, tree.last.entity.node)
        /\ tree.last.op \in {"findDescendants", "countDescendants"} =>
              tree.last.ids = {r \in Stored(tree.parent) :
                                  IsPrefix(EntityPath, MaterializedPath(tree.parent, r))}
        /\ tree.last.op \in {"findAncestors", "countAncestors"} =>
              tree.last.ids = {r \in Stored(tree.parent) :
                                  IsPrefix(MaterializedPath(tree.parent, r), EntityPath)}
        /\ tree.last.count = Cardinality(tree.last.ids)

\* materialized-path descendants of a node with a parent and a child, asked
\* with an entity object whose path was never loaded
C14_Witness ==
    /\ tree.last.op = "findDescendants" /\ tree.last.treeType = "materialized-path"
    /\ tree.last.outcome = "resolved"
    /\ EntityStored
    /\ tree.last.entity.mpath = <<>>
    /\ tree.parent[tree.last.entity.node] # 0
    /\ \E r \in tree.last.ids : tree.parent[r] = tree.last.entity.node
    /\ tree.parent[tree.last.entity.node] \notin tree.last.ids

\* the junction side a closure-table query of the last call joins on and the
\* side it filters on
JoinSide == IF tree.last.op \in {"findDescendants", "countDescendants", "findDescendantsTree"}
            THEN "descendant" ELSE "ancestor"
FilterSide == IF JoinSide = "descendant" THEN "ancestor" ELSE "descendant"

C16_StrategiesAgree ==
    (/\ tree.last.op = "findDescendants"
     /\ tree.last.treeType \in SupportedTreeTypes) =>
        /\ tree.last.outcome = "resolved"
        /\ \A t \in SupportedTreeTypes :
              RunQuery(CreateDescendantsQueryBuilder(t, tree.last.layout, tree.last.entity),
                       tree.last.layout, tree.parent) = tree.last.ids

\* closure-table descendants of a node with a parent and a child in a full tree
C16_Witness ==
    /\ tree.last.op = "findDescendants" /\ tree.last.treeType = "closure-table"
    /\ tree.last.outcome = "resolved"
    /\ Len(tree.parent) = MaxNodes
    /\ EntityStored
    /\ tree.parent[tree.last.entity.node] # 0
    /\ Cardinality(tree.last.ids) >= 2

\* the entries of a sequence are pairwise different
NoRepeats(seq) == \A i \in DOMAIN seq : \A j \in DOMAIN seq : seq[i] = seq[j] => i = j

\* C17: after findDescendantsTree(E), the children of every node reached are
\* exactly the returned entities whose parent is that node, whatever the name
\* of the primary column's property, and each child is attached once even
\* when the raw rows repeat.
C17_ChildrenAttached ==
    (/\ tree.last.op = "findDescendantsTree"
     /\ tree.last.treeType \in SupportedTreeTypes
     /\ tree.last.layout \in {"id", "key"}
     /\ EntityStored) =>
        /\ tree.last.outcome = "resolved"
        /\ \A b \in tree.last.children :
              /\ {b.children[k] : k \in DOMAIN b.children} =
                    {x \in {tree.last.entities[k] : k \in DOMAIN tree.last.entities} :
                        tree.parent[x] = b.node}
              /\ NoRepeats(b.children)

\* ------------------------------------------------------------------------
\* save / remove / softRemove / recover
\* ------------------------------------------------------------------------

\* entity objects a caller can hold
MaxEntities == 2

PersistOps == {"save", "remove", "softRemove", "recover"}

\* what a caller can pass as the target: an entity class, an entity name, an
\* EntitySchema
TargetValues == {Passed(k, 0, 0) : k \in {"function", "string", "schema"}}

\* what a caller can pass as the entity: one entity object, or an array
\* object of 0..MaxListLen entities
EntityValues ==
    {Passed("entity", i, 0) : i \in 1..MaxEntities}
    \cup {Passed("array", i, n) : i \in 1..MaxEntities, n \in 0..MaxListLen}

\* SaveOptions / RemoveOptions, given or left out
OptionValues == {Passed("options", 0, 0)}

\* the argument lists the overloads of the manager allow: the target of every
\* operation is an EntityTarget, which an EntitySchema is
PersistArgLists ==
    {<<e>> : e \in EntityValues}
    \cup {<<e, o>> : e \in EntityValues, o \in OptionValues}
    \cup {<<t, e>> : t \in TargetValues, e \in EntityValues}
    \cup {<<t, e, o>> : t \in TargetValues, e \in EntityValues, o \in OptionValues}

\* Repository.save(entityOrEntities, options) and its siblings call
\* this.manager.save(this.getMetadata().target, entityOrEntities, options)
RepositoryPersistArgs(args) ==
    <<Passed("function", 0, 0), args[1], IF Len(args) > 1 THEN args[2] ELSE NotPassed>>

\* targetOrEntity instanceof Function || targetOrEntity instanceof EntitySchema ||
\* typeof targetOrEntity === "string"  (remove has no EntitySchema test)
IsTargetValue(op, v) ==
    v.kind \in {"function", "string"} \/ (op # "remove" /\ v.kind = "schema")

\* normalize mixed parameters: the target, if the first of several arguments is one
PersistTarget(op, args) ==
    IF Len(args) > 1 /\ IsTargetValue(op, args[1]) THEN args[1] ELSE NotPassed

\* normalize mixed parameters: the entity or array to work on
PersistEntity(op, args) ==
    IF PersistTarget(op, args) # NotPassed THEN args[2] ELSE args[1]

\* Array.isArray(entity) && entity.length === 0
IsEmptyArray(v) == v.kind = "array" /\ v.len = 0

\* which managers have the operation: the class-based EntityManager has save
\* and remove only
HasPersistOp(m, op) == m = "class" => op \in {"save", "remove"}

\* the synchronous part of save / remove / softRemove / recover: an empty
\* array resolves at once, anything else gets an EntityPersistExecutor
PersistEnter(m, via, op, args) ==
    /\ unit.pc = "idle"
    /\ m \in {FactoryCreate(driver), "class"}
    /\ HasPersistOp(m, op)
    /\ via = "repository" => m # "class" /\ Len(args) <= 2 /\ args[1] \in EntityValues
    /\ LET received == IF via = "repository" THEN RepositoryPersistArgs(args) ELSE args
           entity == PersistEntity(op, received)
           base == [NoUnit EXCEPT !.op = op, !.m = m, !.via = via, !.args = args,
                        !.target = PersistTarget(op, received), !.entity = entity]
       IN IF IsEmptyArray(entity)
          THEN unit' = [base EXCEPT !.pc = "done", !.outcome = "resolved",
                                    !.returned = entity]
          ELSE unit' = [base EXCEPT !.pc = "execute", !.executors = 1]
    /\ UNCHANGED <<driver, runner, tx, table, last, tree, mgrs, repos, meta, stmt>>

\* new EntityPersistExecutor(...).execute().then(() => entity): the unit of
\* work runs in one transaction and either completes or fails as a whole
PersistExecute ==
    /\ unit.pc = "execute"
    /\ \/ unit' = [unit EXCEPT !.pc = "done", !.transactions = 1, !.queries = 1,
                               !.outcome = "resolved", !.returned = unit.entity]
       \/ unit' = [unit EXCEPT !.pc = "done", !.transactions = 1,
                               !.outcome = "rejected"]
    /\ UNCHANGED <<driver, runner, tx, table, last, tree, mgrs, repos, meta, stmt>>

\* the caller has consumed the settled promise
PersistSettle ==
    /\ unit.pc = "done"
    /\ unit.op \in PersistOps
    /\ unit' = NoUnit
    /\ UNCHANGED <<driver, runner, tx, table, last, tree, mgrs, repos, meta, stmt>>

\* ------------------------------------------------------------------------
\* Specification of save / remove / softRemove / recover
\* ------------------------------------------------------------------------

InitPersist == Init

NextPersist ==
    \/ \E m \in ManagerKinds, via \in {"manager", "repository"}, op \in PersistOps :
          \E args \in PersistArgLists : PersistEnter(m, via, op, args)
    \/ PersistExecute
    \/ PersistSettle

SpecPersist == InitPersist /\ [][NextPersist]_vars

\* ------------------------------------------------------------------------
\* Properties of save / remove / softRemove / recover
\* ------------------------------------------------------------------------

\* the entity or array among the arguments of the call in progress
PassedEntity ==
    CHOOSE v \in {unit.args[k] : k \in DOMAIN unit.args} : v \in EntityValues

\* C18: save, remove, softRemove and recover resolve with the very entity or
\* array that was passed in; for an empty array they resolve at once with that
\* array: no persist executor, no transaction, no query.
C18_SameInputReturned ==
    (unit.op \in PersistOps) =>
        /\ unit.entity = PassedEntity
        /\ (unit.pc = "done" /\ unit.outcome = "resolved") => unit.returned = PassedEntity
        /\ (PassedEntity.kind = "array" /\ PassedEntity.len = 0) =>
              /\ unit.pc = "done"
              /\ unit.outcome = "resolved"
              /\ unit.executors = 0 /\ unit.transactions = 0 /\ unit.queries = 0

\* ------------------------------------------------------------------------
\* The change-set computation behind save
\* ------------------------------------------------------------------------

\* entity instances in the object graph handed to save
MaxInstances == 3

\* root entities of one save call
MaxRoots == 2

\* primary key values of instances that are already persisted
MaxIds == 1

\* the identity of an instance: Unsaved when a primary key value is missing
Unsaved == 0
Identities == 0..MaxIds

\* a relation property of an instance: the instance it refers to, the cascade
\* flag for the operation kind and the persistence-enabled flag
NoRelation == [target |-> 0, cascade |-> FALSE, persistence |-> FALSE]
Relation(t, c, p) == [target |-> t, cascade |-> c, persistence |-> p]

\* recurse into a related entity only when the cascade flag is set and the
\* relation has persistence enabled
Recurse(rel) == rel.target # 0 /\ rel.cascade /\ rel.persistence

\* the key of the visited-set: the identity of a persisted entity, the
\* instance itself (reference equality) for an unsaved one
VisitKey(ident, i) ==
    IF ident[i] = Unsaved THEN <<"instance", i>> ELSE <<"id", ident[i]>>

\* a visited test that never finds anything
AlreadyVisitedNever(visited, key) == FALSE

\* an entity already visited in this traversal
AlreadyVisited(visited, key) == key \in visited

\* Insert for an entity without identity, Update for one that has it
ChangeOperation(ident, i) ==
    [kind |-> IF ident[i] = Unsaved THEN "insert" ELSE "update",
     key |-> VisitKey(ident, i)]

\* root arrays, instances numbered in the order the traversal meets them
RootLists ==
    {roots \in UNION {[1..n -> 1..MaxInstances] : n \in 1..MaxRoots} :
        \A k \in DOMAIN roots :
            roots[k] <= Cardinality({roots[j] : j \in 1..(k - 1)}) + 1}

\* the largest instance number in a list of roots
LastInstance(roots) ==
    CHOOSE m \in {roots[k] : k \in DOMAIN roots} :
        \A k \in DOMAIN roots : roots[k] <= m

\* save(roots) on a non-empty input: the executor starts computing the
\* change set with every root queued
ComputeStart(roots, ident) ==
    /\ unit.pc = "idle"
    /\ Len(ident) = LastInstance(roots)
    /\ unit' = [NoUnit EXCEPT !.pc = "compute", !.op = "save", !.m = FactoryCreate(driver),
                    !.executors = 1,
                    !.roots = roots, !.known = Len(ident), !.ident = ident,
                    !.edge = [k \in 1..Len(ident) |-> NoRelation],
                    !.queue = roots]
    /\ UNCHANGED <<driver, runner, tx, table, last, tree, mgrs, repos, meta, stmt>>

\* one step of the traversal: take the next queued instance; skip it if its
\* key was visited, else emit its operation and queue what its relation
\* cascades to, unless that was visited already
ComputeVisit(rel, targetIdent) ==
    /\ unit.pc = "compute"
    /\ unit.queue # <<>>
    /\ LET i == Head(unit.queue)
           key == VisitKey(unit.ident, i)
       IN IF AlreadyVisited(unit.visited, key)
          THEN /\ rel = NoRelation /\ targetIdent = Unsaved
               /\ unit' = [unit EXCEPT !.queue = Tail(unit.queue),
                                       !.visits = unit.visits + 1]
          ELSE /\ rel.target <= unit.known + 1
               /\ rel.target <= MaxInstances
               /\ IF rel.target = unit.known + 1
                  THEN TRUE
                  ELSE targetIdent = Unsaved
               /\ LET isNew == rel.target = unit.known + 1
                      ident == IF isNew THEN Append(unit.ident, targetIdent)
                               ELSE unit.ident
                      edge == IF isNew THEN Append(unit.edge, NoRelation)
                              ELSE unit.edge
                      visited == unit.visited \cup {key}
                      queued == IF Recurse(rel)
                                   /\ ~AlreadyVisited(visited, VisitKey(ident, rel.target))
                                THEN <<rel.target>> ELSE <<>>
                  IN unit' = [unit EXCEPT
                         !.known = Len(ident), !.ident = ident,
                         !.edge = [edge EXCEPT ![i] = rel],
                         !.visited = visited,
                         !.ops = Append(unit.ops, ChangeOperation(unit.ident, i)),
                         !.queue = Tail(unit.queue) \o queued,
                         !.visits = unit.visits + 1]
    /\ UNCHANGED <<driver, runner, tx, table, last, tree, mgrs, repos, meta, stmt>>

\* nothing is queued any more: the change set is complete
ComputeDone ==
    /\ unit.pc = "compute"
    /\ unit.queue = <<>>
    /\ unit' = [unit EXCEPT !.pc = "computed"]
    /\ UNCHANGED <<driver, runner, tx, table, last, tree, mgrs, repos, meta, stmt>>

\* the unit of work is over
ComputeReset ==
    /\ unit.pc = "computed"
    /\ unit' = NoUnit
    /\ UNCHANGED <<driver, runner, tx, table, last, tree, mgrs, repos, meta, stmt>>

\* ------------------------------------------------------------------------
\* Specification of the change-set computation
\* ------------------------------------------------------------------------

Relations ==
    {NoRelation}
    \cup {Relation(t, c, p) : t \in 1..MaxInstances, c \in BOOLEAN, p \in BOOLEAN}

InitChanges == Init /\ driver = "default"

NextChanges ==
    \/ \E roots \in RootLists :
          \E ident \in [1..LastInstance(roots) -> Identities] : ComputeStart(roots, ident)
    \/ \E rel \in Relations, targetIdent \in Identities : ComputeVisit(rel, targetIdent)
    \/ ComputeDone
    \/ ComputeReset

SpecChanges == InitChanges /\ [][NextChanges]_vars

\* ------------------------------------------------------------------------
\* Properties of the change-set computation
\* ------------------------------------------------------------------------

\* the instances reachable from S through cascading, persistence-enabled
\* relations
RECURSIVE Reachable(_)
Reachable(S) ==
    LET N == S \cup {unit.edge[i].target : i \in {j \in S : Recurse(unit.edge[j])}}
    IN IF N = S THEN S ELSE Reachable(N)

OperationKeys == {unit.ops[k].key : k \in DOMAIN unit.ops}

\* C20: on every graph reachable from the saved roots through cascading,
\* persistence-enabled relations, cycles included, the change-set computation
\* terminates (every step consumes a queued entry, and only roots and one entry
\* per emitted operation are ever queued) and emits exactly one operation per
\* entity identity or unsaved instance, never two for the same identity.
C20_OneOperationPerIdentity ==
    (unit.pc \in {"compute", "computed"}) =>
        /\ NoRepeats([k \in DOMAIN unit.ops |-> unit.ops[k].key])
        /\ unit.visits + Len(unit.queue) <= Len(unit.roots) + Len(unit.ops)
        /\ Len(unit.ops) <= unit.known
        /\ unit.visits <= MaxRoots + MaxInstances
        /\ (unit.pc = "computed") =>
              OperationKeys =
                  {VisitKey(unit.ident, i) :
                      i \in Reachable({unit.roots[k] : k \in DOMAIN unit.roots})}

\* a cycle of two instances that cascade to each other, saved from one of
\* them: two operations after two steps
C20_Witness ==
    /\ unit.pc = "computed"
    /\ unit.roots = <<1>>
    /\ unit.known = 2
    /\ Recurse(unit.edge[1]) /\ unit.edge[1].target = 2
    /\ Recurse(unit.edge[2]) /\ unit.edge[2].target = 1
    /\ Len(unit.ops) = 2
    /\ unit.visits = 2

\* ------------------------------------------------------------------------
\* Metadata validation: initialized relations
\* ------------------------------------------------------------------------

\* relation properties registered with one connection
MaxRelations == 2

RelationKinds == {"one-to-one", "many-to-one", "one-to-many", "many-to-many"}

\* what a newly created instance of the entity holds in the relation
\* property: nothing, an array, or some other object
InitialValues == {"undefined", "array", "object"}

\* the persistence option of a relation: left out, true or false
PersistenceOptions == {"omitted", "true", "false"}

RelationDeclarations ==
    [kind : RelationKinds, initial : InitialValues, persistence : PersistenceOptions]

\* the relation properties of the entities given to a connection, property
\* by property
RegisteredEntities ==
    UNION {[1..n -> RelationDeclarations] : n \in 0..MaxRelations}

\* persistence counts as enabled only when it is spelled out
PersistenceEnabledExplicitOnly(rel) == rel.persistence = "true"

\* persistence is enabled by default, disabled only by persistence: false
PersistenceEnabled(rel) == rel.persistence # "false"

IsToMany(rel) == rel.kind \in {"one-to-many", "many-to-many"}

\* the validator's check of one relation: the array property of a to-many
\* relation with persistence must not be initialized
InitializedRelation(rel) ==
    IsToMany(rel) /\ PersistenceEnabled(rel) /\ rel.initial = "array"

\* new Connection({entities}): metadata is built and validated
BuildMetadata(entities) ==
    /\ meta.op = "none"
    /\ meta' = [NoBuild EXCEPT !.op = "validate", !.input = entities,
                    !.outcome = IF \E k \in DOMAIN entities : InitializedRelation(entities[k])
                                THEN "thrown" ELSE "built",
                    !.error = IF \E k \in DOMAIN entities : InitializedRelation(entities[k])
                              THEN "InitializedRelationError" ELSE "none"]
    /\ UNCHANGED <<driver, runner, tx, table, last, tree, unit, mgrs, repos, stmt>>

\* the caller has seen the outcome of the build
BuildSettle ==
    /\ meta.op # "none"
    /\ meta' = NoBuild
    /\ UNCHANGED <<driver, runner, tx, table, last, tree, unit, mgrs, repos, stmt>>

\* ------------------------------------------------------------------------
\* Specification of metadata validation
\* ------------------------------------------------------------------------

InitValidate == Init /\ driver = "default"

NextValidate ==
    \/ \E entities \in RegisteredEntities : BuildMetadata(entities)
    \/ BuildSettle

SpecValidate == InitValidate /\ [][NextValidate]_vars

MaxProperties == 2

\* entity names a relation can be established with
TargetNames == {"Category", "Tag"}

\* one property of a projection: whether it has a column type, the relation
\* kind it declares (if any) and its `with`
ProjectionProperties ==
    [type : BOOLEAN, relation : RelationKinds \cup {"none"}, with : {"none", "Category"}]

Projections == UNION {[1..n -> ProjectionProperties] : n \in 0..MaxProperties}

\* connection.options.mappedEntitySchemaProperties for this model: the
\* properties somebody else provides a target for
MappedProperties == SUBSET (1..MaxProperties)

\* let target = relation.with; if (!target) the mapped target, if there is one
RelationTarget(projection, mapped, k) ==
    IF projection[k].with # "none" THEN projection[k].with
    ELSE IF k \in mapped THEN "Tag"
    ELSE "none"

\* relations[propertyName] = {...} happens only for a property that declares
\* a relation and has a target
DeclaresRelation(projection, mapped, k) ==
    projection[k].relation # "none" /\ RelationTarget(projection, mapped, k) # "none"

\* the relation args pushed to the storage, in the order of the keys
RECURSIVE RelationArgs(_, _, _)
RelationArgs(projection, mapped, n) ==
    IF n = 0 THEN <<>>
    ELSE LET rest == RelationArgs(projection, mapped, n - 1)
         IN IF DeclaresRelation(projection, mapped, n)
            THEN Append(rest, [propertyName |-> n,
                               relationType |-> projection[n].relation,
                               type |-> RelationTarget(projection, mapped, n)])
            ELSE rest

\* transform(connection, [schema])
TransformSchema(hasName, projection, mapped) ==
    /\ meta.op = "none"
    /\ IF ~hasName
       THEN meta' = [NoBuild EXCEPT !.op = "transform", !.input = projection,
                         !.mapped = mapped, !.outcome = "thrown",
                         !.error = "missingName"]
       ELSE meta' = [NoBuild EXCEPT !.op = "transform", !.input = projection,
                         !.mapped = mapped, !.outcome = "transformed",
                         !.storage = RelationArgs(projection, mapped, Len(projection))]
    /\ UNCHANGED <<driver, runner, tx, table, last, tree, unit, mgrs, repos, stmt>>

\* ------------------------------------------------------------------------
\* Specification of the schema transformation
\* ------------------------------------------------------------------------

InitTransform == Init /\ driver = "default"

NextTransform ==
    \/ \E hasName \in BOOLEAN, projection \in Projections, mapped \in MappedProperties :
          TransformSchema(hasName, projection, mapped)
    \/ BuildSettle

SpecTransform == InitTransform /\ [][NextTransform]_vars

\* the entries of the storage for property k
EntriesFor(k) == {i \in DOMAIN meta.storage : meta.storage[i].propertyName = k}

\* C29: transform never silently omits a declared relation: every property of
\* the projection that declares a relation kind yields exactly one relation
\* entry, its target taken from `with` or else from the mapped properties,
\* unless the transform fails with an error.
C29_NoRelationOmitted ==
    (meta.op = "transform" /\ meta.outcome # "thrown") =>
        \A k \in DOMAIN meta.input :
            (meta.input[k].relation # "none") =>
                /\ Cardinality(EntriesFor(k)) = 1
                /\ \A i \in EntriesFor(k) :
                      meta.storage[i].type =
                          IF meta.input[k].with # "none" THEN meta.input[k].with ELSE "Tag"

\* ------------------------------------------------------------------------
\* findByIds, increment, decrement
\* ------------------------------------------------------------------------

\* the orders in which getMany() can return a set of rows
InRowOrderOf(rows) ==
    {q \in [1..Cardinality(rows) -> rows] : \A i, j \in DOMAIN q : q[i] = q[j] => i = j}

\* the managers built by createLiteralEntityManager, and the class-based one
SqlManagers == {"default", "sqljs", "class"}

\* an emptiness test that is never true
NoIdsNever(ids) == FALSE

\* if (!ids.length)
NoIds(ids) == Len(ids) = 0

\* findByIds(entityClass, ids, optionsOrConditions?)
FindByIds(m, hasMetadata, ids, where) ==
    /\ stmt.op = "none"
    /\ m \in {FactoryCreate(driver), "class"} \cap SqlManagers
    /\ LET base == [NoStatement EXCEPT !.op = "findByIds", !.m = m,
                        !.args = <<ids, where>>]
       IN IF NoIds(ids)
          THEN stmt' = [base EXCEPT !.outcome = "resolved", !.value = <<>>]
          ELSE IF ~hasMetadata
          THEN stmt' = [base EXCEPT !.outcome = "rejected", !.error = "noMetadata",
                                    !.metadataLookups = 1]
          ELSE \E rows \in InRowOrderOf(
                      {r \in table : /\ \E i \in 1..Len(ids) : ids[i] = r.id
                                     /\ where # "none" => r.title = where}) :
                  stmt' = [base EXCEPT !.outcome = "resolved", !.value = rows,
                                       !.metadataLookups = 1, !.qb = 1, !.queries = 1]
    /\ UNCHANGED <<driver, runner, tx, table, last, tree, unit, mgrs, repos, meta>>

\* property paths a caller can name; the entity has the column likes and the
\* embedded columns social.likes and social.views
PropertyPaths == {"likes", "social.likes", "social.views", "social", "missing"}

ColumnPaths == {"likes", "social.likes", "social.views"}

\* metadata.findColumnWithPropertyPath(propertyPath)
FindColumnWithPropertyPath(path) == IF path \in ColumnPaths THEN path ELSE "none"

\* values a caller can supply to increment / decrement (number | string)
SuppliedValues == {"1", "NaN", "'1'", "'abc'", "''"}

\* Number(value): a number is itself, a numeric string its number, the empty
\* string 0, any other string NaN
ToNumber(v) ==
    IF v \in {"1", "'1'"} THEN "1"
    ELSE IF v = "''" THEN "0"
    ELSE "NaN"

IsNaN(n) == n = "NaN"

\* propertyPath.split(".").reduceRight(...): the nested object with one leaf,
\* the expression `column + value` or `column - value`
SetValues(path, sign, v) ==
    {[path |-> path, column |-> FindColumnWithPropertyPath(path), sign |-> sign,
      value |-> v]}

\* increment / decrement (entityClass, conditions, propertyPath, value)
Increment(m, op, hasMetadata, path, v) ==
    /\ stmt.op = "none"
    /\ op \in {"increment", "decrement"}
    /\ m \in {FactoryCreate(driver), "class"} \cap SqlManagers
    /\ LET base == [NoStatement EXCEPT !.op = op, !.m = m, !.args = <<path, v>>,
                        !.metadataLookups = 1]
       IN IF ~hasMetadata
          THEN stmt' = [base EXCEPT !.outcome = "rejected", !.error = "noMetadata"]
          ELSE IF FindColumnWithPropertyPath(path) = "none"
          THEN stmt' = [base EXCEPT !.outcome = "rejected", !.error = "columnNotFound"]
          ELSE IF IsNaN(ToNumber(v))
          THEN stmt' = [base EXCEPT !.outcome = "rejected", !.error = "notANumber"]
          ELSE \E ok \in BOOLEAN :
                  stmt' = [base EXCEPT
                      !.outcome = IF ok THEN "resolved" ELSE "rejected",
                      !.error = IF ok THEN "none" ELSE "queryFailed",
                      !.qb = 1, !.queries = 1,
                      !.set = SetValues(path, IF op = "increment" THEN "+" ELSE "-", v)]
    /\ UNCHANGED <<driver, runner, tx, table, last, tree, unit, mgrs, repos, meta>>

\* the caller has consumed the outcome
StatementSettle ==
    /\ stmt.op # "none"
    /\ stmt' = NoStatement
    /\ UNCHANGED <<driver, runner, tx, table, last, tree, unit, mgrs, repos, meta>>

\* ------------------------------------------------------------------------
\* Specification of findByIds, increment and decrement
\* ------------------------------------------------------------------------

InitStatement == Init

NextStatement ==
    \/ \E t \in Titles : Settled /\ stmt.op = "none" /\ Save(t)
    \/ Settle
    \/ \E m \in ManagerKinds, h \in BOOLEAN, ids \in IdLists, w \in Titles \cup {"none"} :
          FindByIds(m, h, ids, w)
    \/ \E m \in ManagerKinds, op \in {"increment", "decrement"}, h \in BOOLEAN,
          path \in PropertyPaths, v \in SuppliedValues : Increment(m, op, h, path, v)
    \/ StatementSettle

SpecStatement == InitStatement /\ [][NextStatement]_vars

\* C28: findByIds on the default entity manager with an empty id list
\* resolves to an empty array without looking up metadata and without
\* building or executing any query.
C28_FindByIdsEmptyShortCircuits ==
    (stmt.op = "findByIds" /\ stmt.m = "default" /\ stmt.args[1] = <<>>) =>
        /\ stmt.outcome = "resolved"
        /\ stmt.value = <<>>
        /\ stmt.metadataLookups = 0
        /\ stmt.qb = 0
        /\ stmt.queries = 0

\* findByIds(target, [], conditions) was called on the default manager while
\* the table holds rows
C28_Witness ==
    /\ stmt.op = "findByIds" /\ stmt.m = "default"
    /\ stmt.args[1] = <<>> /\ stmt.args[2] # "none"
    /\ table # {}
    /\ stmt.outcome = "resolved" /\ stmt.value = <<>>

\* what counts as a number among the supplied values
IsNumber(v) == v \in {"1", "'1'"}

\* C30: increment and decrement fail before any update query is built or
\* executed whenever the property path matches no column or the value is not a
\* number; a valid call on an embedded path sets exactly that nested column
\* to `column + value` (or `column - value`) and no other column.
C30_IncrementValidated ==
    (stmt.op \in {"increment", "decrement"}) =>
        /\ (stmt.args[1] \notin ColumnPaths \/ ~IsNumber(stmt.args[2])) =>
              /\ stmt.outcome = "rejected"
              /\ stmt.error # "queryFailed"
              /\ stmt.qb = 0 /\ stmt.queries = 0
        /\ (stmt.qb = 1) =>
              stmt.set = {[path |-> stmt.args[1], column |-> stmt.args[1],
                           sign |-> IF stmt.op = "increment" THEN "+" ELSE "-",
                           value |-> stmt.args[2]]}

\* ------------------------------------------------------------------------
\* Properties of the tree repositories: both directions
\* ------------------------------------------------------------------------

\* the entity object of a stored node, as loaded
LoadedEntity(n) == [node |-> n, mpath |-> MaterializedPath(tree.parent, n)]

SelectedDescendants(treeType, layout, n) ==
    RunQuery(CreateDescendantsQueryBuilder(treeType, layout, LoadedEntity(n)),
             layout, tree.parent)

SelectedAncestors(treeType, layout, n) ==
    RunQuery(CreateAncestorsQueryBuilder(treeType, layout, LoadedEntity(n)),
             layout, tree.parent)

\* C25: for every stored tree and every pair of stored nodes A and B under one
\* strategy, the descendants query of A selects B exactly when the ancestors
\* query of B selects A, and both queries select the entity itself.
C25_DescendantsMirrorAncestors ==
    (/\ tree.last.op \in {"findDescendants", "findAncestors"}
     /\ tree.last.treeType \in SupportedTreeTypes
     /\ EntityStored) =>
        LET a == tree.last.entity.node
            t == tree.last.treeType
            l == tree.last.layout
        IN /\ tree.last.outcome = "resolved"
           /\ a \in tree.last.ids
           /\ tree.last.op = "findDescendants" =>
                 \A b \in Stored(tree.parent) :
                     (b \in tree.last.ids) <=> (a \in SelectedAncestors(t, l, b))
           /\ tree.last.op = "findAncestors" =>
                 \A b \in Stored(tree.parent) :
                     (b \in tree.last.ids) <=> (a \in SelectedDescendants(t, l, b))

\* nested-set ancestors of a node that has a parent and a sibling: the
\* sibling is in neither direction, the parent in one only
C25_Witness ==
    /\ tree.last.op = "findAncestors" /\ tree.last.treeType = "nested-set"
    /\ tree.last.outcome = "resolved"
    /\ Len(tree.parent) = MaxNodes
    /\ EntityStored
    /\ tree.parent[tree.last.entity.node] # 0
    /\ Cardinality(tree.last.ids) = 2
    /\ \E b \in Stored(tree.parent) :
          /\ b # tree.last.entity.node
          /\ tree.parent[b] = tree.parent[tree.last.entity.node]

\* ------------------------------------------------------------------------
\* Properties of the tree repositories: the recursive steps
\* ------------------------------------------------------------------------

\* the (id, parentId) pairs of the last call's flat result
LastRelationMaps ==
    CreateRelationMaps(tree.last.layout, tree.parent,
                       RawRows(tree.last.entities, tree.last.duplicated))

\* the parentIds recorded for an id
ParentIdsOf(maps, id) == {maps[k].parentId : k \in {x \in DOMAIN maps : maps[x].id = id}}

\* ids reachable upwards from an id through the pairs, the id itself left out
RECURSIVE IdsAbove(_, _, _)
IdsAbove(maps, ids, fuel) ==
    LET up == UNION {ParentIdsOf(maps, i) : i \in ids} \ {Null}
    IN IF fuel = 0 THEN up ELSE up \cup IdsAbove(maps, up, fuel - 1)

\* the pairs form a forest: the entities have pairwise different ids, every
\* id has one parentId and no id is above itself
PairsFormForest(maps) ==
    /\ \A i, j \in DOMAIN tree.last.entities :
          KeyValue(tree.last.layout, tree.last.entities[i], 1)
              = KeyValue(tree.last.layout, tree.last.entities[j], 1) => i = j
    /\ \A k \in DOMAIN maps : Cardinality(ParentIdsOf(maps, maps[k].id)) = 1
    /\ \A k \in DOMAIN maps : maps[k].id \notin IdsAbove(maps, {maps[k].id}, Len(maps))

ReturnedEntities == {tree.last.entities[k] : k \in DOMAIN tree.last.entities}

\* C26: on a flat result whose (id, parentId) pairs form a forest the
\* recursive steps of findDescendantsTree and findAncestorsTree terminate,
\* each recursive call moving one step further from the start entity, and
\* findAncestorsTree leaves one parent chain from the entity up to the
\* topmost returned ancestor.
C26_RecursionAdvances ==
    (/\ tree.last.op \in {"findDescendantsTree", "findAncestorsTree"}
     /\ tree.last.treeType \in SupportedTreeTypes
     /\ EntityStored
     /\ PairsFormForest(LastRelationMaps)) =>
        /\ tree.last.outcome = "resolved"
        /\ \A b \in tree.last.children : \A k \in DOMAIN b.children :
              tree.parent[b.children[k]] = b.node
        /\ Cardinality({b.node : b \in tree.last.children})
              = Cardinality(tree.last.children)
        /\ \A a \in tree.last.parents : a.parent = tree.parent[a.node]
        /\ tree.last.op = "findAncestorsTree" =>
              {a.node : a \in tree.last.parents}
                  = {n \in ReturnedEntities : tree.parent[n] \in ReturnedEntities}

\* ------------------------------------------------------------------------
\* getRepository / getTreeRepository
\* ------------------------------------------------------------------------

\* repositories a manager's cache can grow to in the model
MaxRepositories == 2

\* targets a caller can name: the class Post, its entity name, the
\* EntitySchema of Category (declared without a target class), its name
EntityTargets == {"class Post", "'Post'", "schema Category", "'Category'"}

\* connection.getMetadata(target).target: the class of a class entity,
\* options.target || options.name of a schema entity
MetadataTarget(target) ==
    IF target \in {"class Post", "'Post'"} THEN "class Post" ELSE "'Category'"

\* the target getter of createLiteralRepository: the metadata's target once
\* the connection has metadata for it, else what was given
TargetGetter(target, initialized) ==
    IF initialized THEN MetadataTarget(target) ELSE target

\* a repository object: a plain repository keeps the getter; the tree and
\* MongoDB repositories are object spreads of one, which copy the value the
\* getter has when they are created
NewRepository(id, kind, target, initialized) ==
    [id |-> id, kind |-> kind, given |-> target,
     live |-> kind = "Repository",
     fixed |-> TargetGetter(target, initialized)]

\* repository.target
RepositoryTarget(repo, initialized) ==
    IF repo.live THEN TargetGetter(repo.given, initialized) ELSE repo.fixed

\* repositories.find(repository => repository.target === target)
FindRepository(cache, target, initialized) ==
    {k \in DOMAIN cache : RepositoryTarget(cache[k], initialized) = target}

RepositoryCall(op, target, outcome, returned, before) ==
    [op |-> op, target |-> target, outcome |-> outcome, returned |-> returned,
     before |-> before]

\* the connection builds its metadata
ConnectionInitialize ==
    /\ ~repos.initialized
    /\ repos' = [repos EXCEPT !.initialized = TRUE, !.last = NoRepositories.last]
    /\ UNCHANGED <<driver, runner, tx, table, last, tree, unit, mgrs, meta, stmt>>

\* manager.getRepository(target)
GetRepository(target) ==
    /\ Len(repos.repositories) < MaxRepositories
    /\ LET found == FindRepository(repos.repositories, target, repos.initialized)
           first == CHOOSE k \in found : \A x \in found : k <= x
           kind == IF driver = "mongo" THEN "MongoRepository" ELSE "Repository"
           new == NewRepository(repos.created + 1, kind, target, repos.initialized)
       IN IF found # {}
          THEN repos' = [repos EXCEPT !.last =
                            RepositoryCall("getRepository", target, "returned",
                                           repos.repositories[first].id,
                                           repos.repositories)]
          ELSE repos' = [repos EXCEPT
                            !.repositories = Append(@, new),
                            !.created = @ + 1,
                            !.last = RepositoryCall("getRepository", target, "returned",
                                                    new.id, repos.repositories)]
    /\ UNCHANGED <<driver, runner, tx, table, last, tree, unit, mgrs, meta, stmt>>

\* manager.getTreeRepository(target)
GetTreeRepository(target) ==
    /\ Len(repos.treeRepositories) < MaxRepositories
    /\ LET found == FindRepository(repos.treeRepositories, target, repos.initialized)
           first == CHOOSE k \in found : \A x \in found : k <= x
           new == NewRepository(repos.created + 1, "TreeRepository", target,
                                repos.initialized)
       IN IF driver = "mongo"
          THEN repos' = [repos EXCEPT !.last =
                            RepositoryCall("getTreeRepository", target, "thrown", 0,
                                           repos.treeRepositories)]
          ELSE IF found # {}
          THEN repos' = [repos EXCEPT !.last =
                            RepositoryCall("getTreeRepository", target, "returned",
                                           repos.treeRepositories[first].id,
                                           repos.treeRepositories)]
          ELSE repos' = [repos EXCEPT
                            !.treeRepositories = Append(@, new),
                            !.created = @ + 1,
                            !.last = RepositoryCall("getTreeRepository", target, "returned",
                                                    new.id, repos.treeRepositories)]
    /\ UNCHANGED <<driver, runner, tx, table, last, tree, unit, mgrs, meta, stmt>>

\* ------------------------------------------------------------------------
\* Specification of the repository getters
\* ------------------------------------------------------------------------

InitRepositories == Init

NextRepositories ==
    \/ ConnectionInitialize
    \/ \E target \in EntityTargets : GetRepository(target)
    \/ \E target \in EntityTargets : GetTreeRepository(target)

SpecRepositories == InitRepositories /\ [][NextRepositories]_vars

\* C24: getRepository and getTreeRepository are idempotent per manager: a call
\* with a target that was asked for before returns the repository made then,
\* and the cache never holds two repositories for one target, for classes,
\* entity names and EntitySchema objects alike.
C24_RepositoryPerTarget ==
    /\ (repos.last.outcome = "returned") =>
          \A k \in DOMAIN repos.last.before :
              repos.last.before[k].given = repos.last.target =>
                  repos.last.returned = repos.last.before[k].id
    /\ \A i, j \in DOMAIN repos.repositories :
          repos.repositories[i].given = repos.repositories[j].given => i = j
    /\ \A i, j \in DOMAIN repos.treeRepositories :
          repos.treeRepositories[i].given = repos.treeRepositories[j].given => i = j

\* ------------------------------------------------------------------------
\* EntityManagerFactory.create and queryRunner.manager
\* ------------------------------------------------------------------------

\* create calls in one run of the model
MaxManagers == 3

SqljsOperations == {"loadDatabase", "saveDatabase", "exportDatabase"}

\* a manager object: its typeof tag, whether it has the Sqljs operations and
\* the query runner it was built for (if any)
ManagerObject(tag, sqljs, hasRunner, r) ==
    [typeof |-> tag, operations |-> IF sqljs THEN SqljsOperations ELSE {},
     hasRunner |-> hasRunner, runner |-> r]

\* createLiteralEntityManager({connection, queryRunner}): the object it makes
\* is put at position id; a supplied runner gets it as its manager
CreateLiteralEntityManager(m, supplied, r, id) ==
    [m EXCEPT !.objects = Append(@, ManagerObject("EntityManager", FALSE, supplied, r)),
              !.runnerManager = IF supplied THEN [@ EXCEPT ![r] = id] ELSE @]

\* createLiteralSqljsEntityManager: a new object spread from the one
\* createLiteralEntityManager returns, with the Sqljs operations added
CreateLiteralSqljsEntityManager(m, supplied, r, id) ==
    LET inner == CreateLiteralEntityManager(m, supplied, r, id)
    IN [inner EXCEPT !.objects =
           Append(@, ManagerObject("SqljsEntityManager", TRUE, supplied, r))]

\* createLiteralMongoEntityManager({connection}): the runner is not passed on
CreateLiteralMongoEntityManager(m) ==
    [m EXCEPT !.objects =
        Append(@, ManagerObject("MongoEntityManager", FALSE, FALSE, SuppliedRunner))]

\* new EntityManagerFactory().create(connection, queryRunner?)
CreateManager(supplied, r) ==
    /\ Cardinality({k \in DOMAIN mgrs.objects : mgrs.objects[k].typeof # "EntityManager"
                                                 \/ driver = "default"}) < MaxManagers
    /\ supplied => \A k \in DOMAIN mgrs.objects :
                       ~(mgrs.objects[k].hasRunner /\ mgrs.objects[k].runner = r)
    /\ ~supplied => r = SuppliedRunner
    /\ LET id == Len(mgrs.objects) + 1
           made == IF FactoryCreate(driver) = "mongo"
                   THEN CreateLiteralMongoEntityManager(mgrs)
                   ELSE IF FactoryCreate(driver) = "sqljs"
                   THEN CreateLiteralSqljsEntityManager(mgrs, supplied, r, id)
                   ELSE CreateLiteralEntityManager(mgrs, supplied, r, id)
       IN mgrs' = [made EXCEPT !.last = [op |-> "create", supplied |-> supplied,
                                         runner |-> r, manager |-> Len(made.objects),
                                         handed |-> 0]]
    /\ UNCHANGED <<driver, runner, tx, table, last, tree, unit, repos, meta, stmt>>

\* manager.transaction(cb) on a manager built for a runner:
\* runInTransaction(queryRunner.manager)
ManagerTransaction(k) ==
    /\ k \in DOMAIN mgrs.objects
    /\ mgrs.objects[k].hasRunner
    /\ mgrs.objects[k].typeof # "MongoEntityManager"
    /\ mgrs' = [mgrs EXCEPT !.last =
                   [op |-> "transaction", supplied |-> TRUE,
                    runner |-> mgrs.objects[k].runner, manager |-> k,
                    handed |-> mgrs.runnerManager[mgrs.objects[k].runner]]]
    /\ UNCHANGED <<driver, runner, tx, table, last, tree, unit, repos, meta, stmt>>

\* ------------------------------------------------------------------------
\* Specification of the manager factory
\* ------------------------------------------------------------------------

InitFactory == Init

NextFactory ==
    \/ \E supplied \in BOOLEAN, r \in RunnerIds : CreateManager(supplied, r)
    \/ \E k \in 1..(2 * MaxManagers) : ManagerTransaction(k)

SpecFactory == InitFactory /\ [][NextFactory]_vars

\* C27: when EntityManagerFactory.create(connection, queryRunner) returns a
\* manager M for a supplied query runner, queryRunner.manager is M afterwards,
\* and the manager handed to the callback of M.transaction() is M, with the
\* same operations, the Sqljs ones included.
C27_RunnerManagerIsReturnedManager ==
    /\ (mgrs.last.op = "create" /\ mgrs.last.supplied) =>
          mgrs.runnerManager[mgrs.last.runner] = mgrs.last.manager
    /\ (mgrs.last.op = "transaction") =>
          /\ mgrs.last.handed = mgrs.last.manager
          /\ mgrs.last.handed \in DOMAIN mgrs.objects
          /\ mgrs.objects[mgrs.last.handed].operations
                = mgrs.objects[mgrs.last.manager].operations

\* ------------------------------------------------------------------------
\* Concurrent transaction() calls on one manager bound to a query runner
\* ------------------------------------------------------------------------

\* transaction() up to its first suspension, on the manager built for the
\* supplied runner: the checks, then the call of startTransaction, which
\* marks the runner before it suspends
ConcurrentEnter(c, firstIsIsolation) ==
    /\ tx[c].pc = "idle"
    /\ LET g == TransactionGuard(TRUE, driver, TRUE,
                                 runner[SuppliedRunner].isReleased,
                                 runner[SuppliedRunner].isTransactionActive)
           base == [IdleCall EXCEPT !.op = "transaction", !.mgr = "bound",
                        !.isolation = firstIsIsolation, !.hasCallback = TRUE,
                        !.sawReleased = runner[SuppliedRunner].isReleased,
                        !.sawActive = runner[SuppliedRunner].isTransactionActive]
       IN IF g # "none"
          THEN /\ tx' = [tx EXCEPT ![c] = [base EXCEPT !.pc = "done", !.outcome = g]]
               /\ UNCHANGED runner
          ELSE /\ tx' = [tx EXCEPT ![c] = [base EXCEPT !.pc = "callback",
                                               !.started = StartArguments(firstIsIsolation),
                                               !.log = <<"start">>]]
               /\ runner' = [runner EXCEPT ![SuppliedRunner].isTransactionActive = TRUE]
    /\ UNCHANGED <<driver, table, last, tree, unit, mgrs, repos, meta, stmt>>

\* ------------------------------------------------------------------------
\* Specification of concurrent transaction() calls
\* ------------------------------------------------------------------------

InitConcurrent == Init /\ driver # "mongo"

NextConcurrent ==
    \/ \E c \in Calls, i \in BOOLEAN : ConcurrentEnter(c, i)
    \/ \E c \in Calls : TxCallback(c)
    \/ \E c \in Calls : TxCommit(c)
    \/ \E c \in Calls : TxObserve(c)
    \/ \E c \in Calls : TxRollback(c)
    \/ \E c \in Calls : TxFinally(c)
    \/ \E c \in Calls : TxReturn(c)

SpecConcurrent == InitConcurrent /\ [][NextConcurrent]_vars

\* call c has started a transaction on the runner and has not ended it yet
InTransaction(c) ==
    /\ tx[c].op = "transaction"
    /\ Issued(c, "start")
    /\ tx[c].pc \in {"callback", "commit"}

\* call c has started and its next query-runner call is a commit or a rollback
Unfinished(c) ==
    /\ tx[c].op = "transaction"
    /\ Issued(c, "start")
    /\ tx[c].pc \in {"callback", "commit", "rollback"}

\* C22: on a manager bound to one query runner, under any interleaving of
\* transaction() calls, at most one call at a time is between its
\* startTransaction and its commit/rollback: a call that arrives while another
\* is in progress fails with the 'already started' error, and no call starts,
\* commits or rolls back a transaction that belongs to another call.
C22_OneTransactionAtATime ==
    /\ \A c, d \in Calls : (Unfinished(c) /\ Unfinished(d)) => c = d
    /\ \A c \in Calls :
          (tx[c].op = "transaction" /\ tx[c].sawActive) =>
              /\ tx[c].outcome = "alreadyStarted"
              /\ tx[c].log = <<>>
    /\ \A c \in Calls :
          InTransaction(c) => runner[SuppliedRunner].isTransactionActive

====
